---------------------------- MODULE Spec2Model ----------------------------
(***************************************************************************)
(* A model of the route-planning core of b-bots: the campus graph          *)
(* (src/map.py), Dijkstra's search and the nearest-neighbour tour          *)
(* (src/pathfinding.py), the delivery system (src/app/delivery.py), the    *)
(* order server (src/app/pi_server.py) and the navigation controller       *)
(* (src/navigation/navigation.py).                                         *)
(*                                                                         *)
(* Python values are modelled as follows.  A dict is a function whose      *)
(* DOMAIN is the dict's key set.  None is the string "None".               *)
(* float('inf') is the number Inf, larger than every distance the bounded  *)
(* graphs can produce.  A location is its name: the other attributes of    *)
(* Location (code, coordinates, description, flag) are read by none of the *)
(* operations modelled here.                                               *)
(***************************************************************************)
EXTENDS Integers, Sequences, FiniteSets, TLC

VARIABLES
    map,      \* CampusMap: [locations: the known names, graph: adjacency dict]
    raised,   \* the exception the last call raised, or "none"
    calls,    \* how many calls a behaviour has made, where the model bounds them
    call,     \* the last call of a CampusMap or DeliverySystem method: its
              \* name and arguments
    fsp,      \* the frame of one find_shortest_path call
    opt,      \* the frame of one optimize_route call
    info,     \* the result of one _build_route_info call
    self,     \* the DeliverySystem: [orders, current_route, current_location,
              \* order_counter]
    clock,    \* the latest value datetime.now() has returned
    result,   \* what the last DeliverySystem call returned
    fpm,      \* the frame of one find_path_to_multiple call
    execution_queue,  \* pi_server.execution_queue
    is_executing,     \* pi_server.is_executing
    threads,  \* pi_server's request handlers and execute_orders_thread
              \* threads that have started: each thread's position and locals
    nav       \* the NavigationController: [current_route,
              \* current_waypoint_index, current_location, state]

\* the DeliverySystem, its clock and its last result
registry == <<self, clock, result>>

\* the state of pi_server
server == <<execution_queue, is_executing, threads>>

vars == <<map, raised, calls, call, fsp, opt, info, registry, fpm, server, nav>>

-----------------------------------------------------------------------------
(* Bounds and universes *)

\* the largest edge weight the graphs of the search specification carry
MaxWeight == 3

\* float('inf')
Inf == 1000000

None == "None"

\* completed_at: Optional[datetime] = None, the missing time: a value that
\* is no time of the clock
NoTime == -1

\* no call was made yet
NoCall == [op |-> "none", args |-> <<>>]

\* location names, in the order Python compares the strings
NameOrd == <<"A", "B", "C", "D">>

Names == {NameOrd[i] : i \in 1..Len(NameOrd)}

Rank(n) == CHOOSE i \in 1..Len(NameOrd) : NameOrd[i] = n

EmptyDict == [x \in {} |-> 0]

\* the element of a one-element set.  A recursion passes its next argument
\* through a one-element set, {F(v) : v \in {e}}, so that e is evaluated once
Only(S) == CHOOSE x \in S : TRUE

-----------------------------------------------------------------------------
(* CampusMap, src/map.py *)

\* CampusMap.add_location: the name becomes known and gets an adjacency dict
\* unless it has one
AddLocation(m, name) ==
    [locations |-> m.locations \cup {name},
     graph |-> IF name \in DOMAIN m.graph
               THEN m.graph
               ELSE [n \in DOMAIN m.graph \cup {name} |->
                        IF n = name THEN EmptyDict ELSE m.graph[n]]]

\* a mutant: only loc1 is tested
ConnectionFailsFirstOnly(m, loc1, loc2) == loc1 \notin m.locations

\* whether add_connection raises ValueError
ConnectionFails(m, loc1, loc2) ==
    loc1 \notin m.locations \/ loc2 \notin m.locations

\* dict assignment d[k] = v
DictSet(d, k, v) == [x \in DOMAIN d \cup {k} |-> IF x = k THEN v ELSE d[x]]

\* a mutant: only the loc1 -> loc2 direction is written
AddConnectionOneWay(m, loc1, loc2, distance) ==
    IF ConnectionFails(m, loc1, loc2)
    THEN m
    ELSE [m EXCEPT !.graph =
            DictSet(m.graph, loc1, DictSet(m.graph[loc1], loc2, distance))]

\* CampusMap.add_connection: both directions are written, loc1 -> loc2 first
AddConnection(m, loc1, loc2, distance) ==
    IF ConnectionFails(m, loc1, loc2)
    THEN m
    ELSE LET g0 == m.graph
             g1 == IF loc1 \in DOMAIN g0 THEN g0 ELSE DictSet(g0, loc1, EmptyDict)
             g2 == IF loc2 \in DOMAIN g1 THEN g1 ELSE DictSet(g1, loc2, EmptyDict)
             g3 == DictSet(g2, loc1, DictSet(g2[loc1], loc2, distance))
             g4 == DictSet(g3, loc2, DictSet(g3[loc2], loc1, distance))
         IN  [m EXCEPT !.graph = g4]

\* CampusMap.get_neighbors
get_neighbors(m, location) ==
    IF location \in DOMAIN m.graph THEN m.graph[location] ELSE EmptyDict

\* the test of CampusMap.get_distance: loc1 has an entry for loc2
HasEdge(m, loc1, loc2) ==
    loc1 \in DOMAIN m.graph /\ loc2 \in DOMAIN m.graph[loc1]

\* CampusMap.get_distance: the direct edge weight, or None
get_distance(m, loc1, loc2) ==
    IF HasEdge(m, loc1, loc2) THEN m.graph[loc1][loc2] ELSE None

\* the map before any location is added (CampusMap.__init__, first two lines)
EmptyMap == [locations |-> {}, graph |-> EmptyDict]

RECURSIVE AddLocations(_, _)
AddLocations(m, names) ==
    IF names = {} THEN m
    ELSE LET n == CHOOSE x \in names : TRUE
         IN  AddLocations(AddLocation(m, n), names \ {n})

\* add_connection for every pair of E, with the weights w
RECURSIVE AddConnections(_, _, _)
AddConnections(m, E, w) ==
    IF E = {} THEN m
    ELSE LET e == CHOOSE x \in E : TRUE
         IN  AddConnections(AddConnection(m, e[1], e[2], w[e]), E \ {e}, w)

\* the maps that add_location and add_connection build over the names locs,
\* with edges among the pairs `pairs` and weights in W
MapsOver(locs, pairs, W) ==
    LET usable == {e \in pairs : e[1] \in locs /\ e[2] \in locs}
    IN  UNION {{AddConnections(AddLocations(EmptyMap, locs), E, w) : w \in [E -> W]}
               : E \in SUBSET usable}

-----------------------------------------------------------------------------
(* Pathfinder.find_shortest_path, src/pathfinding.py *)

\* the frame of a call that has not started
Frame(start, end) ==
    [pc |-> "call", start |-> start, end |-> end,
     distances |-> EmptyDict, previous |-> EmptyDict, visited |-> {},
     pq |-> {}, pops |-> 0, path |-> <<>>, dist |-> 0]

\* the order of the heap's entries: Python compares the tuples (distance, name)
HeapLess(x, y) ==
    x[1] < y[1] \/ (x[1] = y[1] /\ Rank(x[2]) < Rank(y[2]))

\* a mutant: the entry with the largest distance is popped
HeapMax(pq) == CHOOSE x \in pq : \A y \in pq \ {x} : HeapLess(y, x)

\* heapq.heappop: the least entry
HeapMin(pq) == CHOOSE x \in pq : \A y \in pq \ {x} : HeapLess(x, y)

\* the path that the previous links give, from the start to node
RECURSIVE Reconstruct(_, _)
Reconstruct(previous, node) ==
    IF node = None THEN <<>>
    ELSE Append(Reconstruct(previous, previous[node]), node)

\* a mutant: the known-location test is dropped
FspEnterNoCheck(m, f) ==
    IF f.start = f.end
    THEN [f EXCEPT !.pc = "done", !.path = <<f.start>>, !.dist = 0]
    ELSE [f EXCEPT !.pc = "search",
                   !.distances = [n \in {f.start} |-> 0],
                   !.previous = [n \in {f.start} |-> None],
                   !.pq = {<<0, f.start>>}]

\* a mutant: the start == end shortcut is dropped
FspEnterNoShortcut(m, f) ==
    IF f.start \notin m.locations \/ f.end \notin m.locations
    THEN [f EXCEPT !.pc = "done", !.path = <<>>, !.dist = Inf]
    ELSE [f EXCEPT !.pc = "search",
                   !.distances = [n \in {f.start} |-> 0],
                   !.previous = [n \in {f.start} |-> None],
                   !.pq = {<<0, f.start>>}]

\* lines 25-35: the two early returns, else the search is set up
FspEnter(m, f) ==
    IF f.start \notin m.locations \/ f.end \notin m.locations
    THEN [f EXCEPT !.pc = "done", !.path = <<>>, !.dist = Inf]
    ELSE IF f.start = f.end
    THEN [f EXCEPT !.pc = "done", !.path = <<f.start>>, !.dist = 0]
    ELSE [f EXCEPT !.pc = "search",
                   !.distances = [n \in {f.start} |-> 0],
                   !.previous = [n \in {f.start} |-> None],
                   !.pq = {<<0, f.start>>}]

\* what one pass of the while loop does: "empty" (the loop ends), "stale"
\* (the popped node was visited), "found" (it is the end) or "relax"
FspBranch(f) ==
    IF f.pq = {} THEN "empty"
    ELSE LET current == HeapMin(f.pq)[2]
         IN  IF current \in f.visited THEN "stale"
             ELSE IF current = f.end THEN "found"
             ELSE "relax"

\* lines 56-66 with a mutant's slip: a neighbour is updated only when it has no
\* distance yet, never improved
FspRelaxFirstOnly(m, f, current_dist, current) ==
    LET neighbors == get_neighbors(m, current)
        visited == f.visited \cup {current}
        better == {n \in DOMAIN neighbors :
                      /\ n \notin visited
                      /\ n \notin DOMAIN f.distances}
    IN  [f EXCEPT
            !.visited = visited,
            !.distances = [n \in DOMAIN f.distances \cup better |->
                              IF n \in better THEN current_dist + neighbors[n]
                              ELSE f.distances[n]],
            !.previous = [n \in DOMAIN f.previous \cup better |->
                              IF n \in better THEN current ELSE f.previous[n]],
            !.pq = f.pq \cup {<<current_dist + neighbors[n], n>> : n \in better}]

\* lines 43, 56-66: the popped node is visited and its edges are relaxed
FspRelax(m, f, current_dist, current) ==
    LET neighbors == get_neighbors(m, current)
        visited == f.visited \cup {current}
        better == {n \in DOMAIN neighbors :
                      /\ n \notin visited
                      /\ \/ n \notin DOMAIN f.distances
                         \/ current_dist + neighbors[n] < f.distances[n]}
    IN  [f EXCEPT
            !.visited = visited,
            !.distances = [n \in DOMAIN f.distances \cup better |->
                              IF n \in better THEN current_dist + neighbors[n]
                              ELSE f.distances[n]],
            !.previous = [n \in DOMAIN f.previous \cup better |->
                              IF n \in better THEN current ELSE f.previous[n]],
            !.pq = f.pq \cup {<<current_dist + neighbors[n], n>> : n \in better}]

\* lines 37-69: one pass of the while loop, or the return after it
FspStep(m, f) ==
    IF f.pq = {}
    THEN [f EXCEPT !.pc = "done", !.path = <<>>, !.dist = Inf]
    ELSE Only({
            LET current_dist == top[1]
                current == top[2]
                popped == [f EXCEPT !.pq = f.pq \ {top}, !.pops = f.pops + 1]
            IN  IF current \in f.visited THEN popped
                ELSE IF current = f.end
                THEN [popped EXCEPT !.visited = f.visited \cup {current},
                                    !.pc = "done",
                                    !.path = Reconstruct(f.previous, f.end),
                                    !.dist = current_dist]
                ELSE Only({FspRelax(m, g, top[1], top[2]) : g \in {popped}})
            : top \in {HeapMin(f.pq)}})

RECURSIVE FspRun(_, _)
FspRun(m, f) ==
    IF f.pc = "done" THEN f
    ELSE Only({FspRun(m, g) : g \in {FspStep(m, f)}})

\* find_shortest_path(start, end): the returned (path, distance)
find_shortest_path(m, start, end) ==
    Only({[path |-> f.path, dist |-> f.dist] :
             f \in {FspRun(m, FspEnter(m, Frame(start, end)))}})

-----------------------------------------------------------------------------
(* Order and DeliverySystem.optimize_route, src/app/delivery.py *)

\* the decimal digits of n, most significant first
RECURSIVE DecDigits(_)
DecDigits(n) == IF n < 10 THEN <<n>> ELSE Append(DecDigits(n \div 10), n % 10)

\* f"ORD-{n:04d}": the digits of n, padded with zeros to four; the constant
\* prefix "ORD-" is left out
RECURSIVE ZeroPad(_, _)
ZeroPad(ds, width) == IF Len(ds) >= width THEN ds ELSE ZeroPad(<<0>> \o ds, width)

OrderId(n) == ZeroPad(DecDigits(n), 4)

\* Python's order of two order ids, as strings
RECURSIVE IdLess(_, _)
IdLess(a, b) ==
    IF a = <<>> THEN b # <<>>
    ELSE IF b = <<>> THEN FALSE
    ELSE IF a[1] # b[1] THEN a[1] < b[1]
    ELSE IdLess(Tail(a), Tail(b))

\* Order(...): a new order; customer_name and items are read by no operation
\* of DeliverySystem (pi_server reads items: see OrderWithItems)
Order(order_id, pickup_location, delivery_location, priority, created_at) ==
    [order_id |-> order_id,
     pickup_location |-> pickup_location,
     delivery_location |-> delivery_location,
     status |-> "PENDING",
     created_at |-> created_at,
     completed_at |-> NoTime,
     priority |-> priority]

\* the sequences that list every element of S once: the orders in which a
\* Python set may be iterated
Orderings(S) ==
    {q \in [1..Cardinality(S) -> S] : \A i, j \in 1..Cardinality(S) : q[i] = q[j] => i = j}

\* the one ordering of a set of order ids that ascends
Ascending(S) ==
    CHOOSE q \in Orderings(S) : \A i \in 1..(Len(q) - 1) : IdLess(q[i], q[i + 1])

\* {order.order_id: order for order in orders}: the last order of an id wins
OrderDict(orders) ==
    [id \in {orders[i].order_id : i \in 1..Len(orders)} |->
        orders[CHOOSE i \in 1..Len(orders) :
                  /\ orders[i].order_id = id
                  /\ \A j \in (i + 1)..Len(orders) : orders[j].order_id # id]]

\* lines 100-104
NoBest ==
    [next |-> None, distance |-> Inf, path |-> <<>>, action_type |-> None,
     order_id |-> None]

\* the frame of an optimize_route call that has not started; selected (the
\* actions chosen so far), iters (the passes of the loop) and exit (how the
\* loop was left) record the run, the code has no such variables
OptFrame(start_location, orders) ==
    [pc |-> "call", start_location |-> start_location, orders |-> orders,
     picked_up_orders |-> {}, path |-> <<>>, total_distance |-> 0,
     current |-> start_location, remaining_order_ids |-> {},
     best |-> NoBest, selected |-> <<>>, iters |-> 0, exit |-> "none"]

\* lines 87-96
OptEnter(o) ==
    IF o.orders = <<>>
    THEN [o EXCEPT !.pc = "done", !.path = <<o.start_location>>,
                   !.total_distance = 0, !.exit = "no_orders"]
    ELSE [o EXCEPT !.pc = "loop", !.path = <<o.start_location>>,
                   !.total_distance = 0, !.current = o.start_location,
                   !.remaining_order_ids =
                       {o.orders[i].order_id : i \in 1..Len(o.orders)}]

\* a mutant: delivery is a candidate for every remaining order
CandidateKindAlwaysDeliver(o, order_id) == "deliver"

\* lines 111, 123: the action considered for a remaining order
CandidateKind(o, order_id) ==
    IF order_id \notin o.picked_up_orders THEN "pickup" ELSE "deliver"

\* a mutant: a delivery heads for the pickup location
CandidateTargetPickupOnly(order, kind) == order.pickup_location

\* lines 113, 125: where the considered action takes place
CandidateTarget(order, kind) ==
    IF kind = "pickup" THEN order.pickup_location ELSE order.delivery_location

\* a mutant: the first candidate with a path is kept, later ones are not
\* compared with it
ConsiderFirstFound(m, o, best, order_id) ==
    LET order == OrderDict(o.orders)[order_id]
        kind == CandidateKind(o, order_id)
        target == CandidateTarget(order, kind)
    IN  Only({IF best.next = None /\ found.dist < best.distance
              THEN [next |-> target, distance |-> found.dist, path |-> found.path,
                    action_type |-> kind, order_id |-> order_id]
              ELSE best :
                 found \in {find_shortest_path(m, o.current, target)}})

\* lines 108-132: one pass of the for loop, for order_id
Consider(m, o, best, order_id) ==
    LET order == OrderDict(o.orders)[order_id]
        kind == CandidateKind(o, order_id)
        target == CandidateTarget(order, kind)
    IN  Only({IF found.dist < best.distance
              THEN [next |-> target, distance |-> found.dist, path |-> found.path,
                    action_type |-> kind, order_id |-> order_id]
              ELSE best :
                 found \in {find_shortest_path(m, o.current, target)}})

\* lines 107-132: the for loop over remaining_order_ids, iterated in the
\* order q
RECURSIVE ConsiderAll(_, _, _, _)
ConsiderAll(m, o, best, q) ==
    IF q = <<>> THEN best
    ELSE Only({ConsiderAll(m, o, b, Tail(q)) : b \in {Consider(m, o, best, Head(q))}})

BestAction(m, o, q) == ConsiderAll(m, o, NoBest, q)

\* a mutant: a one-node sub-path is appended without the test of line 142
ExtendPathUntested(path, current, best_path) ==
    IF Len(best_path) > 1 THEN path \o Tail(best_path)
    ELSE IF best_path # <<>> THEN Append(path, best_path[1])
    ELSE path

\* a mutant: the sub-path is appended with its first node
ExtendPathWhole(path, current, best_path) ==
    IF Len(best_path) > 1 THEN path \o best_path
    ELSE IF best_path # <<>> /\ best_path[1] # current THEN Append(path, best_path[1])
    ELSE path

\* lines 137-143: the path grows by the sub-path without its first node
ExtendPath(path, current, best_path) ==
    IF Len(best_path) > 1 THEN path \o Tail(best_path)
    ELSE IF best_path # <<>> /\ best_path[1] # current THEN Append(path, best_path[1])
    ELSE path

\* lines 100-132: the for loop of one pass of the while loop, with the set
\* iterated in the order q
OptScan(m, o, q) == [o EXCEPT !.pc = "chosen", !.best = BestAction(m, o, q)]

\* a mutant: the no-candidate guard does not leave the loop
OptApplyNoGuard(o) ==
    LET best == o.best
    IN  IF best.next = None
        THEN [o EXCEPT !.pc = "loop", !.iters = @ + 1]
        ELSE [o EXCEPT
                !.pc = "loop",
                !.iters = @ + 1,
                !.path = ExtendPath(o.path, o.current, best.path),
                !.total_distance = @ + best.distance,
                !.current = best.next,
                !.picked_up_orders =
                    IF best.action_type = "pickup"
                    THEN @ \cup {best.order_id} ELSE @,
                !.remaining_order_ids =
                    IF best.action_type = "deliver"
                    THEN @ \ {best.order_id} ELSE @,
                !.selected = Append(@, [action_type |-> best.action_type,
                                        order_id |-> best.order_id])]

\* lines 134-152: the rest of the pass, for the best action found
OptApply(o) ==
    LET best == o.best
    IN  IF best.next = None
        THEN [o EXCEPT !.pc = "done", !.exit = "guard", !.iters = @ + 1]
        ELSE [o EXCEPT
                !.pc = "loop",
                !.iters = @ + 1,
                !.path = ExtendPath(o.path, o.current, best.path),
                !.total_distance = @ + best.distance,
                !.current = best.next,
                !.picked_up_orders =
                    IF best.action_type = "pickup"
                    THEN @ \cup {best.order_id} ELSE @,
                !.remaining_order_ids =
                    IF best.action_type = "deliver"
                    THEN @ \ {best.order_id} ELSE @,
                !.selected = Append(@, [action_type |-> best.action_type,
                                        order_id |-> best.order_id])]

\* lines 99-154: one pass of the while loop with the set iterated in the
\* order q, or the return when the set is empty
OptStep(m, o, q) ==
    IF o.remaining_order_ids = {}
    THEN [o EXCEPT !.pc = "done", !.exit = "all_delivered"]
    ELSE OptApply(OptScan(m, o, q))

\* every frame optimize_route can return with, over the iteration orders
RECURSIVE OptRuns(_, _)
OptRuns(m, o) ==
    IF o.pc = "done" THEN {o}
    ELSE UNION {OptRuns(m, n) :
                   n \in {OptStep(m, o, q) : q \in Orderings(o.remaining_order_ids)}}

\* optimize_route(start_location, orders): the (path, total_distance) values
\* it can return
optimize_route(m, start_location, orders) ==
    {[path |-> o.path, total_distance |-> o.total_distance] :
        o \in OptRuns(m, OptEnter(OptFrame(start_location, orders)))}

\* the frame optimize_route returns with when every pass iterates the
\* remaining ids in ascending order
RECURSIVE OptRunAscending(_, _)
OptRunAscending(m, o) ==
    IF o.pc = "done" THEN o
    ELSE Only({OptRunAscending(m, n) :
                  n \in {OptStep(m, o, Ascending(o.remaining_order_ids))}})

-----------------------------------------------------------------------------
(* DeliverySystem._build_route_info, src/app/delivery.py *)

\* f"PICKUP: {order.order_id}" and f"DELIVER: {order.order_id}"
ActionEntry(kind, order_id) == [kind |-> kind, order_id |-> order_id]

\* lines 241-244; stop records, for each location of route_info, the index in
\* the route of the visit that wrote its entry (the code keeps no such index)
NoRouteInfo ==
    [route_info |-> EmptyDict, stop |-> EmptyDict, picked_up |-> {},
     delivered |-> {}]

\* line 252
PickupHere(order, location, picked_up) ==
    location = order.pickup_location /\ order.order_id \notin picked_up

\* a mutant: a delivery does not need the pickup
DeliverHereUnpicked(order, location, picked_up, delivered) ==
    location = order.delivery_location /\ order.order_id \notin delivered

\* lines 258-260
DeliverHere(order, location, picked_up, delivered) ==
    /\ location = order.delivery_location
    /\ order.order_id \in picked_up
    /\ order.order_id \notin delivered

\* lines 251-254: the pickups at location; st is [actions, picked_up]
RECURSIVE Pickups(_, _, _)
Pickups(orders, location, st) ==
    IF orders = <<>> THEN st
    ELSE LET order == Head(orders)
         IN  Pickups(Tail(orders), location,
                IF PickupHere(order, location, st.picked_up)
                THEN [actions |-> Append(st.actions, ActionEntry("PICKUP", order.order_id)),
                      picked_up |-> st.picked_up \cup {order.order_id}]
                ELSE st)

\* lines 257-262: the deliveries at location; st is [actions, delivered]
RECURSIVE Deliveries(_, _, _, _)
Deliveries(orders, location, picked_up, st) ==
    IF orders = <<>> THEN st
    ELSE LET order == Head(orders)
         IN  Deliveries(Tail(orders), location, picked_up,
                IF DeliverHere(order, location, picked_up, st.delivered)
                THEN [actions |-> Append(st.actions, ActionEntry("DELIVER", order.order_id)),
                      delivered |-> st.delivered \cup {order.order_id}]
                ELSE st)

\* a mutant: a location's entry is written at its first visit only
VisitKeepFirst(r, orders, location, index) ==
    LET p == Pickups(orders, location, [actions |-> <<>>, picked_up |-> r.picked_up])
        d == Deliveries(orders, location, p.picked_up,
                        [actions |-> p.actions, delivered |-> r.delivered])
    IN  IF d.actions # <<>> /\ location \notin DOMAIN r.route_info
        THEN [route_info |-> DictSet(r.route_info, location, d.actions),
              stop |-> DictSet(r.stop, location, index),
              picked_up |-> p.picked_up, delivered |-> d.delivered]
        ELSE [r EXCEPT !.picked_up = p.picked_up, !.delivered = d.delivered]

\* lines 248-265: the visit of location, the index-th stop of the route
Visit(r, orders, location, index) ==
    LET p == Pickups(orders, location, [actions |-> <<>>, picked_up |-> r.picked_up])
        d == Deliveries(orders, location, p.picked_up,
                        [actions |-> p.actions, delivered |-> r.delivered])
    IN  IF d.actions # <<>>
        THEN [route_info |-> DictSet(r.route_info, location, d.actions),
              stop |-> DictSet(r.stop, location, index),
              picked_up |-> p.picked_up, delivered |-> d.delivered]
        ELSE [r EXCEPT !.picked_up = p.picked_up, !.delivered = d.delivered]

\* lines 247-265: the visits of route[index..]
RECURSIVE Replay(_, _, _, _)
Replay(r, route, orders, index) ==
    IF index > Len(route) THEN r
    ELSE Only({Replay(v, route, orders, index + 1) :
                  v \in {Visit(r, orders, route[index], index)}})

\* _build_route_info(route, orders), with the stop indices
BuildRouteInfo(route, orders) == Replay(NoRouteInfo, route, orders, 1)

\* _build_route_info(route, orders): the returned mapping
build_route_info(route, orders) == BuildRouteInfo(route, orders).route_info

-----------------------------------------------------------------------------
(* DeliverySystem: the order registry, src/app/delivery.py *)

\* lines 39-45: the DeliverySystem after __init__
DeliverySystem ==
    [orders |-> EmptyDict, current_route |-> <<>>, current_location |-> "",
     order_counter |-> 0]

\* Optional[List[str]]: the argument order_ids, absent or a list of ids
NoIds == [none |-> TRUE]

SomeIds(ids) == [some |-> ids]

IsNone(order_ids) == "none" \in DOMAIN order_ids

\* a mutant: the counter is read and not incremented
CreateOrderNoCount(m, sys, pickup_location, delivery_location, priority, now) ==
    LET order_id == OrderId(sys.order_counter + 1)
    IN  IF pickup_location \notin m.locations
        THEN [sys |-> sys, raised |-> "ValueError: Invalid pickup location",
              result |-> None]
        ELSE IF delivery_location \notin m.locations
        THEN [sys |-> sys, raised |-> "ValueError: Invalid delivery location",
              result |-> None]
        ELSE [sys |-> [sys EXCEPT !.orders =
                          DictSet(@, order_id,
                                  Order(order_id, pickup_location,
                                        delivery_location, priority, now))],
              raised |-> "none",
              result |-> order_id]

\* a mutant: the delivery location is not validated
CreateOrderDeliveryUnchecked(m, sys, pickup_location, delivery_location, priority, now) ==
    LET counted == [sys EXCEPT !.order_counter = @ + 1]
        order_id == OrderId(counted.order_counter)
    IN  IF pickup_location \notin m.locations
        THEN [sys |-> counted, raised |-> "ValueError: Invalid pickup location",
              result |-> None]
        ELSE [sys |-> [counted EXCEPT !.orders =
                          DictSet(@, order_id,
                                  Order(order_id, pickup_location,
                                        delivery_location, priority, now))],
              raised |-> "none",
              result |-> order_id]

\* lines 47-70: create_order on the system sys at the time now; the counter is
\* incremented before the locations are validated
CreateOrder(m, sys, pickup_location, delivery_location, priority, now) ==
    LET counted == [sys EXCEPT !.order_counter = @ + 1]
        order_id == OrderId(counted.order_counter)
    IN  IF pickup_location \notin m.locations
        THEN [sys |-> counted, raised |-> "ValueError: Invalid pickup location",
              result |-> None]
        ELSE IF delivery_location \notin m.locations
        THEN [sys |-> counted, raised |-> "ValueError: Invalid delivery location",
              result |-> None]
        ELSE [sys |-> [counted EXCEPT !.orders =
                          DictSet(@, order_id,
                                  Order(order_id, pickup_location,
                                        delivery_location, priority, now))],
              raised |-> "none",
              result |-> order_id]

\* a mutant: the sort key is the priority alone
KeyLessPriorityOnly(a, b) == a.priority < b.priority

\* line 80: the sort key (priority, created_at) of a is less than that of b
KeyLess(a, b) ==
    \/ a.priority < b.priority
    \/ a.priority = b.priority /\ a.created_at < b.created_at

\* line 80: sorted(..., reverse=True) puts a before b: the greater key first,
\* and of equal keys the order that came first in the dict, which keeps
\* its insertion order: the order of the lesser counter value
SortsBefore(a, b) ==
    \/ KeyLess(b, a)
    \/ ~KeyLess(a, b) /\ ~KeyLess(b, a) /\ IdLess(a.order_id, b.order_id)

\* lines 76-80: get_pending_orders
get_pending_orders(sys) ==
    LET pending == {id \in DOMAIN sys.orders : sys.orders[id].status = "PENDING"}
        q == CHOOSE q \in Orderings(pending) :
                \A i, j \in 1..Len(q) :
                    i < j => SortsBefore(sys.orders[q[i]], sys.orders[q[j]])
    IN  [i \in 1..Len(q) |-> sys.orders[q[i]]]

\* a mutant: the status of a named order is not read
RECURSIVE PendingAmongAnyStatus(_, _)
PendingAmongAnyStatus(sys, ids) ==
    IF ids = <<>> THEN <<>>
    ELSE LET oid == Head(ids)
             rest == PendingAmongAnyStatus(sys, Tail(ids))
         IN  IF oid \in DOMAIN sys.orders
             THEN <<sys.orders[oid]>> \o rest
             ELSE rest

\* lines 168-170: the orders of order_ids that are known and pending
RECURSIVE PendingAmong(_, _)
PendingAmong(sys, ids) ==
    IF ids = <<>> THEN <<>>
    ELSE LET oid == Head(ids)
             rest == PendingAmong(sys, Tail(ids))
         IN  IF oid \in DOMAIN sys.orders /\ sys.orders[oid].status = "PENDING"
             THEN <<sys.orders[oid]>> \o rest
             ELSE rest

\* lines 164-170
OrdersToDeliver(sys, order_ids) ==
    IF IsNone(order_ids) THEN get_pending_orders(sys)
    ELSE PendingAmong(sys, order_ids.some)

\* lines 156-190: the (route, distance, details) values plan_delivery_route
\* can return; estimated_time_minutes, distance / 60.0, is left out
plan_delivery_route(m, sys, start_location, order_ids) ==
    LET orders_to_deliver == OrdersToDeliver(sys, order_ids)
    IN  IF orders_to_deliver = <<>>
        THEN {[route |-> <<start_location>>, distance |-> 0, details |-> EmptyDict]}
        ELSE {[route |-> r.path,
               distance |-> r.total_distance,
               details |->
                   [orders |-> [i \in 1..Len(orders_to_deliver) |->
                                   orders_to_deliver[i].order_id],
                    total_orders |-> Len(orders_to_deliver),
                    estimated_distance |-> r.total_distance,
                    route_info |-> build_route_info(r.path, orders_to_deliver)]] :
                  r \in optimize_route(m, start_location, orders_to_deliver)}

\* lines 202-204: every order named in ids that the dict knows is set in
\* progress
MarkInProgress(sys, ids) ==
    [sys EXCEPT !.orders =
        [id \in DOMAIN @ |->
            IF \E i \in 1..Len(ids) : ids[i] = id
            THEN [@[id] EXCEPT !.status = "IN_PROGRESS"]
            ELSE @[id]]]

\* lines 192-206: start_delivery with the plan that plan_delivery_route
\* returned
StartDelivery(sys, start_location, order_ids, plan) ==
    LET routed == [sys EXCEPT !.current_route = plan.route,
                              !.current_location = start_location]
        pending == get_pending_orders(routed)
        ids == IF IsNone(order_ids)
               THEN [i \in 1..Len(pending) |-> pending[i].order_id]
               ELSE order_ids.some
    IN  MarkInProgress(routed, ids)

\* lines 208-213: complete_order at the time now
CompleteOrder(sys, order_id, now) ==
    IF order_id \in DOMAIN sys.orders
    THEN [sys EXCEPT !.orders[order_id].status = "COMPLETED",
                     !.orders[order_id].completed_at = now]
    ELSE sys

\* lines 215-218: cancel_order
CancelOrder(sys, order_id) ==
    IF order_id \in DOMAIN sys.orders
    THEN [sys EXCEPT !.orders[order_id].status = "CANCELLED"]
    ELSE sys


-----------------------------------------------------------------------------
(* Pathfinder.find_path_to_multiple, src/pathfinding.py *)

\* p[1:]
Rest(p) == IF p = <<>> THEN <<>> ELSE Tail(p)

\* the frame of a find_path_to_multiple call that has not started; visited
\* (the destinations appended so far, each with the position it was reached
\* from and the distance added) records the run, the code has no such
\* variable
MultiFrame(start, destinations, return_to_start) ==
    [pc |-> "call", start |-> start, destinations |-> destinations,
     return_to_start |-> return_to_start, path |-> <<>>, total_distance |-> 0,
     current |-> start, remaining |-> {}, visited |-> <<>>]

\* lines 84-100: list(set(destinations)) without start
MultiEnter(f) ==
    LET destinations == {f.destinations[i] : i \in 1..Len(f.destinations)} \ {f.start}
    IN  IF f.destinations = <<>>
        THEN [f EXCEPT !.pc = "done", !.path = <<f.start>>]
        ELSE IF destinations = {}
        THEN [f EXCEPT !.pc = "done",
                       !.path = IF f.return_to_start THEN <<f.start, f.start>>
                                ELSE <<f.start>>]
        ELSE [f EXCEPT !.pc = "loop", !.path = <<f.start>>, !.total_distance = 0,
                       !.current = f.start, !.remaining = destinations]

\* lines 105-107
NoNearest == [nearest |-> None, dist |-> Inf, path |-> <<>>]

\* a mutant: a destination at the same or a greater distance replaces the
\* nearest found so far
NearerOrLater(m, current, best, dest) ==
    Only({IF found.dist < Inf
          THEN [nearest |-> dest, dist |-> found.dist, path |-> found.path]
          ELSE best :
             found \in {find_shortest_path(m, current, dest)}})

\* lines 110-114: one pass of the for loop, for dest
Nearer(m, current, best, dest) ==
    Only({IF found.dist < best.dist
          THEN [nearest |-> dest, dist |-> found.dist, path |-> found.path]
          ELSE best :
             found \in {find_shortest_path(m, current, dest)}})

\* lines 109-114: the for loop over remaining, iterated in the order q
RECURSIVE Nearest(_, _, _, _)
Nearest(m, current, best, q) ==
    IF q = <<>> THEN best
    ELSE Only({Nearest(m, current, b, Tail(q)) : b \in {Nearer(m, current, best, Head(q))}})

\* lines 103-123: one pass of the while loop with the set iterated in the
\* order q; the loop is left when the set is empty or nothing is in reach
MultiStep(m, f, q) ==
    IF f.remaining = {} THEN [f EXCEPT !.pc = "return"]
    ELSE Only({IF n.nearest = None
               THEN [f EXCEPT !.pc = "return"]
               ELSE [f EXCEPT !.path = @ \o Rest(n.path),
                              !.total_distance = @ + n.dist,
                              !.current = n.nearest,
                              !.remaining = @ \ {n.nearest},
                              !.visited = Append(@, [dest |-> n.nearest,
                                                     from |-> f.current,
                                                     dist |-> n.dist])]
               : n \in {Nearest(m, f.current, NoNearest, q)}})

\* lines 125-131: the way back, when it is asked for
MultiReturn(m, f) ==
    IF f.return_to_start /\ f.current # f.start
    THEN Only({[f EXCEPT !.pc = "done",
                         !.path = @ \o Rest(back.path),
                         !.total_distance = @ + back.dist]
               : back \in {find_shortest_path(m, f.current, f.start)}})
    ELSE [f EXCEPT !.pc = "done"]

-----------------------------------------------------------------------------
(* NavigationController, src/navigation/navigation.py *)

\* lines 43-46: the controller after __init__
NavigationController ==
    [current_route |-> <<>>, current_waypoint_index |-> 0,
     current_location |-> None, state |-> "idle"]

-----------------------------------------------------------------------------
(* pi_server, src/app/pi_server.py *)

\* no request is being handled and no execute_orders_thread has started
NoThreads == <<>>

-----------------------------------------------------------------------------
(* The search specification: one find_shortest_path call on a drawn map *)

\* the pairs of names that may carry an edge in a drawn map: every pair but
\* A-D, so that the drawn maps stay few when the weights grow
PathPairs ==
    {e \in Names \X Names : Rank(e[1]) < Rank(e[2])} \ {<<"A", "D">>}

\* the maps of the search specification: every name known or "D" unknown
PathMaps ==
    MapsOver(Names, PathPairs, 1..MaxWeight)
        \cup MapsOver(Names \ {"D"}, PathPairs, 1..MaxWeight)

InitPath ==
    /\ self = DeliverySystem
    /\ clock = 0
    /\ result = None
    /\ map \in PathMaps
    /\ raised = "none"
    /\ calls = 0
    /\ call = NoCall
    /\ fsp \in {Frame(s, e) : s \in Names, e \in Names}
    /\ opt = OptFrame("A", <<>>)
    /\ info = NoRouteInfo
    /\ fpm = MultiFrame("A", <<>>, FALSE)
    /\ execution_queue = <<>>
    /\ is_executing = FALSE
    /\ threads = NoThreads
    /\ nav = NavigationController

\* lines 25-35
FspCall ==
    /\ fsp.pc = "call"
    /\ fsp' = FspEnter(map, fsp)
    /\ UNCHANGED <<map, raised, calls, call, opt, info, registry, fpm, server, nav>>

\* lines 38-41: the popped node was visited before
FspPopStale ==
    /\ fsp.pc = "search" /\ FspBranch(fsp) = "stale"
    /\ fsp' = FspStep(map, fsp)
    /\ UNCHANGED <<map, raised, calls, call, opt, info, registry, fpm, server, nav>>

\* lines 45-53: the popped node is the end
FspPopFound ==
    /\ fsp.pc = "search" /\ FspBranch(fsp) = "found"
    /\ fsp' = FspStep(map, fsp)
    /\ UNCHANGED <<map, raised, calls, call, opt, info, registry, fpm, server, nav>>

\* lines 55-66: the popped node's edges are relaxed
FspPopRelax ==
    /\ fsp.pc = "search" /\ FspBranch(fsp) = "relax"
    /\ fsp' = FspStep(map, fsp)
    /\ UNCHANGED <<map, raised, calls, call, opt, info, registry, fpm, server, nav>>

\* lines 68-69: the queue is empty
FspExhausted ==
    /\ fsp.pc = "search" /\ FspBranch(fsp) = "empty"
    /\ fsp' = FspStep(map, fsp)
    /\ UNCHANGED <<map, raised, calls, call, opt, info, registry, fpm, server, nav>>

NextPath ==
    \/ FspCall
    \/ FspPopStale
    \/ FspPopFound
    \/ FspPopRelax
    \/ FspExhausted

SpecPath == InitPath /\ [][NextPath]_vars

-----------------------------------------------------------------------------
(* Claims about find_shortest_path, checked under SpecPath *)

\* the longest walk, in nodes, that the brute-force enumeration builds
MaxWalk == 5

\* every walk of the graph that starts at a and has at most k nodes
RECURSIVE WalksFrom(_, _, _)
WalksFrom(m, a, k) ==
    IF k <= 1 THEN {<<a>>}
    ELSE LET shorter == WalksFrom(m, a, k - 1)
         IN  shorter \cup
             UNION {{Append(p, n) : n \in DOMAIN get_neighbors(m, p[Len(p)])}
                    : p \in shorter}

\* the walks from a to b
WalksBetween(m, a, b) == {p \in WalksFrom(m, a, MaxWalk) : p[Len(p)] = b}

\* the names that can be reached from a name of S along edges
RECURSIVE Component(_, _)
Component(m, S) ==
    LET T == S \cup UNION {DOMAIN get_neighbors(m, n) : n \in S}
    IN  IF T = S THEN S ELSE Component(m, T)

\* b can be reached from the known location a along edges
Reachable(m, a, b) ==
    a \in m.locations /\ b \in m.locations /\ b \in Component(m, {a})

\* every consecutive pair of p is joined by an edge
IsWalk(m, p) ==
    \A i \in 1..(Len(p) - 1) : HasEdge(m, p[i], p[i + 1])

\* the sum of the edge weights along the walk p
RECURSIVE WalkCost(_, _)
WalkCost(m, p) ==
    IF Len(p) < 2 THEN 0
    ELSE WalkCost(m, SubSeq(p, 1, Len(p) - 1))
            + m.graph[p[Len(p) - 1]][p[Len(p)]]

AllPositive(m) ==
    \A a \in DOMAIN m.graph : \A b \in DOMAIN m.graph[a] : m.graph[a][b] > 0

\* C1: with positive weights and end reachable from start, the returned path
\* starts at start, ends at end, follows edges, the returned distance is the
\* sum of its edge weights, and no walk from start to end costs less.
C1_ShortestPath ==
    (fsp.pc = "done" /\ AllPositive(map) /\ Reachable(map, fsp.start, fsp.end))
    => /\ fsp.path # <<>>
       /\ fsp.path[1] = fsp.start
       /\ fsp.path[Len(fsp.path)] = fsp.end
       /\ IsWalk(map, fsp.path)
       /\ fsp.dist = WalkCost(map, fsp.path)
       /\ \A p \in WalksBetween(map, fsp.start, fsp.end) :
             fsp.dist <= WalkCost(map, p)

\* C1's case: the search returned a route of several hops that is cheaper than
\* the direct edge between its ends
C1_Witness ==
    /\ fsp.pc = "done"
    /\ Len(fsp.path) >= 3
    /\ HasEdge(map, fsp.start, fsp.end)
    /\ fsp.dist < map.graph[fsp.start][fsp.end]

\* C7: an unknown endpoint, or an end in another component, gives ([], inf)
\* and raises nothing; known, connected, distinct endpoints give a path.
C7_NoPath ==
    fsp.pc = "done"
    => /\ raised = "none"
       /\ (~Reachable(map, fsp.start, fsp.end))
             => (fsp.path = <<>> /\ fsp.dist = Inf)
       /\ (Reachable(map, fsp.start, fsp.end) /\ fsp.start # fsp.end)
             => fsp.path # <<>>

\* C7's case: both ends are known, the search ran and emptied its queue
C7_Witness ==
    /\ fsp.pc = "done"
    /\ fsp.start \in map.locations /\ fsp.end \in map.locations
    /\ fsp.pops >= 2
    /\ fsp.path = <<>> /\ fsp.dist = Inf

\* C8 as claimed: every call with start == end returns ([start], 0) and runs
\* no search.
C8_Original ==
    (fsp.pc = "done" /\ fsp.start = fsp.end)
    => (fsp.path = <<fsp.start>> /\ fsp.dist = 0 /\ fsp.pops = 0)

\* C8 as amended: a call with start == end runs no search; it returns
\* ([start], 0) when start is a known location and ([], inf) when it is not.
C8_SameEndpoints ==
    (fsp.pc = "done" /\ fsp.start = fsp.end)
    => /\ fsp.pops = 0 /\ fsp.visited = {} /\ fsp.distances = EmptyDict
       /\ fsp.start \in map.locations
             => (fsp.path = <<fsp.start>> /\ fsp.dist = 0)
       /\ fsp.start \notin map.locations
             => (fsp.path = <<>> /\ fsp.dist = Inf)

\* C8's case: a finished call from a known location to itself
C8_Witness ==
    /\ fsp.pc = "done"
    /\ fsp.start = fsp.end
    /\ fsp.start \in map.locations
    /\ fsp.path = <<fsp.start>>

-----------------------------------------------------------------------------
(* The map specification: add_location and add_connection on the campus map *)

\* the locations of _initialize_ub_campus, lines 33-62 (the e of "One World
\* Cafe" is written without its accent)
CampusLocations ==
    {"Capen Hall", "Norton Hall", "Alumni Arena",
     "Student Union", "Davis Hall", "Baldy Hall",
     "Clemens Hall", "O'Brian Hall", "Jacobs Management Center",
     "Furnas Hall", "Knox Hall", "Park Hall",
     "Ellicott Complex", "Greiner Hall", "Governors Complex",
     "C3 Dining Center", "One World Cafe", "The Cellar",
     "UB Commons", "Baird Point", "Center for the Arts"}

\* the connections of _initialize_ub_campus, lines 70-119
CampusConnections ==
    {<<"Capen Hall", "Norton Hall", 200>>, <<"Capen Hall", "Student Union", 150>>,
     <<"Capen Hall", "One World Cafe", 100>>, <<"Capen Hall", "Baldy Hall", 180>>,
     <<"Capen Hall", "Clemens Hall", 220>>, <<"Capen Hall", "Knox Hall", 250>>,
     <<"Norton Hall", "Davis Hall", 150>>, <<"Norton Hall", "Furnas Hall", 200>>,
     <<"Davis Hall", "Furnas Hall", 100>>, <<"Student Union", "One World Cafe", 50>>,
     <<"Student Union", "The Cellar", 30>>, <<"Student Union", "UB Commons", 80>>,
     <<"Alumni Arena", "Student Union", 250>>, <<"Alumni Arena", "Furnas Hall", 180>>,
     <<"Baldy Hall", "Park Hall", 150>>, <<"Baldy Hall", "O'Brian Hall", 200>>,
     <<"Baldy Hall", "Baird Point", 100>>, <<"Clemens Hall", "Park Hall", 180>>,
     <<"Park Hall", "Center for the Arts", 120>>, <<"O'Brian Hall", "Jacobs Management Center", 150>>,
     <<"O'Brian Hall", "Baird Point", 80>>, <<"Ellicott Complex", "C3 Dining Center", 50>>,
     <<"Ellicott Complex", "Furnas Hall", 300>>, <<"Greiner Hall", "Knox Hall", 200>>,
     <<"Greiner Hall", "Clemens Hall", 250>>, <<"Governors Complex", "Park Hall", 300>>,
     <<"Governors Complex", "Center for the Arts", 250>>, <<"C3 Dining Center", "Alumni Arena", 350>>,
     <<"One World Cafe", "UB Commons", 100>>, <<"The Cellar", "UB Commons", 80>>,
     <<"UB Commons", "Alumni Arena", 200>>, <<"Baird Point", "Center for the Arts", 150>>,
     <<"Jacobs Management Center", "Alumni Arena", 300>>}

\* the weight that the connections give the pair a, b (no pair is listed twice)
CampusWeight(a, b) ==
    LET c == CHOOSE x \in CampusConnections :
                 (x[1] = a /\ x[2] = b) \/ (x[1] = b /\ x[2] = a)
    IN  c[3]

\* CampusMap(): the map after construction, lines 64-66 and 121-123: every
\* location is added, then add_connection writes each connection both ways
UBCampus ==
    [locations |-> CampusLocations,
     graph |-> [a \in CampusLocations |->
                  [b \in {y \in CampusLocations :
                            \E x \in CampusConnections :
                               (x[1] = a /\ x[2] = y) \/ (x[1] = y /\ x[2] = a)}
                     |-> CampusWeight(a, b)]]]

\* the most calls one behaviour of the map specification makes
MaxMapCalls == 4

\* the largest weight add_connection is called with; the least is -1, for the
\* code accepts any number
MaxMapWeight == 1

\* the names the calls are made with: two campus locations and a new one
MapCallNames == {"Capen Hall", "Norton Hall", "Annex"}

InitMap ==
    /\ self = DeliverySystem
    /\ clock = 0
    /\ result = None
    /\ map = UBCampus
    /\ raised = "none"
    /\ calls = 0
    /\ call = NoCall
    /\ fsp = Frame("A", "A")
    /\ opt = OptFrame("A", <<>>)
    /\ info = NoRouteInfo
    /\ fpm = MultiFrame("A", <<>>, FALSE)
    /\ execution_queue = <<>>
    /\ is_executing = FALSE
    /\ threads = NoThreads
    /\ nav = NavigationController

\* CampusMap.add_location(name, ...)
add_location(name) ==
    /\ calls < MaxMapCalls
    /\ calls' = calls + 1
    /\ call' = [op |-> "add_location", args |-> <<name>>]
    /\ map' = AddLocation(map, name)
    /\ raised' = "none"
    /\ UNCHANGED <<fsp, opt, info, registry, fpm, server, nav>>

\* CampusMap.add_connection(loc1, loc2, distance)
add_connection(loc1, loc2, distance) ==
    /\ calls < MaxMapCalls
    /\ calls' = calls + 1
    /\ call' = [op |-> "add_connection", args |-> <<loc1, loc2, distance>>]
    /\ map' = AddConnection(map, loc1, loc2, distance)
    /\ raised' = IF ConnectionFails(map, loc1, loc2) THEN "ValueError" ELSE "none"
    /\ UNCHANGED <<fsp, opt, info, registry, fpm, server, nav>>

NextMap ==
    \/ \E name \in MapCallNames : add_location(name)
    \/ \E loc1, loc2 \in MapCallNames : \E distance \in (-1)..MaxMapWeight :
          add_connection(loc1, loc2, distance)

SpecMap == InitMap /\ [][NextMap]_vars

\* C9: after any calls of add_location and add_connection, get_distance(a, b)
\* and get_distance(b, a) are both absent or both the same weight, for all
\* names a and b.
C9_Symmetry ==
    \A a, b \in CampusLocations \cup MapCallNames :
        /\ HasEdge(map, a, b) <=> HasEdge(map, b, a)
        /\ HasEdge(map, a, b) => map.graph[a][b] = map.graph[b][a]

\* C9's case: an existing pair was connected again with a new weight, and a
\* location added later was connected to an old one
C9_Witness ==
    /\ map.graph["Capen Hall"]["Norton Hall"] # 200
    /\ HasEdge(map, "Annex", "Norton Hall")

-----------------------------------------------------------------------------
(* The route specification: optimize_route on a drawn map and order list,   *)
(* then _build_route_info on its result, as plan_delivery_route calls them  *)
(* (lines 176-180)                                                          *)

\* the most orders of a drawn order list
MaxOrders == 2

\* the largest edge weight of the maps of the route specification
MaxRouteWeight == 1

\* the names of the route specification
RouteNames == {"A", "B", "C"}

RoutePairs == {e \in RouteNames \X RouteNames : Rank(e[1]) < Rank(e[2])}

\* the maps of the route specification: every name known, or "C" unknown
RouteMaps ==
    MapsOver(RouteNames, RoutePairs, 1..MaxRouteWeight)
        \cup MapsOver(RouteNames \ {"C"}, RoutePairs, 1..MaxRouteWeight)

\* the order lists: the i-th order has the id of counter value i.  The ids
\* only name the orders and the set of remaining ids is iterated in every
\* order, so of the lists that are permutations of each other one is drawn:
\* the one whose (pickup, delivery) pairs do not descend
EndsRank(e) == Rank(e[1]) * Len(NameOrd) + Rank(e[2])

OrderLists ==
    UNION {{[i \in 1..n |-> Order(OrderId(i), ends[i][1], ends[i][2], 0, i)] :
               ends \in {x \in [1..n -> RouteNames \X RouteNames] :
                            \A i \in 1..(n - 1) : EndsRank(x[i]) <= EndsRank(x[i + 1])}}
           : n \in 0..MaxOrders}

InitRoute ==
    /\ self = DeliverySystem
    /\ clock = 0
    /\ result = None
    /\ map \in RouteMaps
    /\ raised = "none"
    /\ calls = 0
    /\ call = NoCall
    /\ fsp = Frame("A", "A")
    /\ opt \in {OptFrame(s, orders) : s \in RouteNames, orders \in OrderLists}
    /\ info = NoRouteInfo
    /\ fpm = MultiFrame("A", <<>>, FALSE)
    /\ execution_queue = <<>>
    /\ is_executing = FALSE
    /\ threads = NoThreads
    /\ nav = NavigationController

\* lines 87-96
OptCall ==
    /\ opt.pc = "call"
    /\ opt' = OptEnter(opt)
    /\ UNCHANGED <<map, raised, calls, call, fsp, info, registry, fpm, server, nav>>

\* lines 100-132: the for loop, over the set in one of its iteration orders
OptConsider ==
    /\ opt.pc = "loop"
    /\ opt.remaining_order_ids # {}
    /\ \E q \in Orderings(opt.remaining_order_ids) : opt' = OptScan(map, opt, q)
    /\ UNCHANGED <<map, raised, calls, call, fsp, info, registry, fpm, server, nav>>

\* lines 137-150: the best action is a pickup
OptPickup ==
    /\ opt.pc = "chosen"
    /\ opt.best.action_type = "pickup"
    /\ opt' = OptApply(opt)
    /\ UNCHANGED <<map, raised, calls, call, fsp, info, registry, fpm, server, nav>>

\* lines 137-152: the best action is a delivery
OptDeliver ==
    /\ opt.pc = "chosen"
    /\ opt.best.action_type = "deliver"
    /\ opt' = OptApply(opt)
    /\ UNCHANGED <<map, raised, calls, call, fsp, info, registry, fpm, server, nav>>

\* lines 134-135: there is no candidate, the loop is left
OptBreak ==
    /\ opt.pc = "chosen"
    /\ opt.best.next = None
    /\ opt' = OptApply(opt)
    /\ UNCHANGED <<map, raised, calls, call, fsp, info, registry, fpm, server, nav>>

\* lines 99, 154: the set is empty, the loop ends
OptReturn ==
    /\ opt.pc = "loop"
    /\ opt.remaining_order_ids = {}
    /\ opt' = OptStep(map, opt, <<>>)
    /\ UNCHANGED <<map, raised, calls, call, fsp, info, registry, fpm, server, nav>>

\* line 180: _build_route_info on the returned route
Annotate ==
    /\ opt.pc = "done"
    /\ opt' = [opt EXCEPT !.pc = "annotated"]
    /\ info' = BuildRouteInfo(opt.path, opt.orders)
    /\ UNCHANGED <<map, raised, calls, call, fsp, registry, fpm, server, nav>>

NextRoute ==
    \/ OptCall
    \/ OptConsider
    \/ OptPickup
    \/ OptDeliver
    \/ OptBreak
    \/ OptReturn
    \/ Annotate

SpecRoute == InitRoute /\ [][NextRoute]_vars

\* a call that has started runs on: the interpreter takes the next step
FairSpecRoute == SpecRoute /\ WF_vars(NextRoute)

-----------------------------------------------------------------------------
(* Claims about optimize_route and _build_route_info, checked under SpecRoute *)

Returned == opt.pc \in {"done", "annotated"}

\* the ids of the orders of the call
OrderIds == {opt.orders[i].order_id : i \in 1..Len(opt.orders)}

\* the positions of an entry in the list that route_info has for location
EntryAt(kind, order_id, location) ==
    IF location \in DOMAIN info.route_info
    THEN {k \in 1..Len(info.route_info[location]) :
             info.route_info[location][k] = ActionEntry(kind, order_id)}
    ELSE {}

\* C2 as claimed: in the action log of a route of optimize_route, every
\* order's PICKUP entry is at a stop index strictly less than that of its
\* DELIVER entry.  The stop index of an entry is the index in the route of
\* the visit that wrote it.
C2_Original ==
    opt.pc = "annotated"
    => \A id \in OrderIds : \A l1, l2 \in RouteNames :
          (EntryAt("PICKUP", id, l1) # {} /\ EntryAt("DELIVER", id, l2) # {})
             => info.stop[l1] < info.stop[l2]

\* C2 as amended: the stop index of an order's PICKUP entry is at most that
\* of its DELIVER entry; the two are equal only for an order whose pickup and
\* delivery location are the same, and then PICKUP comes first in the list of
\* that stop.
C2_PickupNotAfterDeliver ==
    opt.pc = "annotated"
    => \A i \in 1..Len(opt.orders) : \A l1, l2 \in RouteNames :
          LET order == opt.orders[i]
              ps == EntryAt("PICKUP", order.order_id, l1)
              ds == EntryAt("DELIVER", order.order_id, l2)
          IN  (ps # {} /\ ds # {})
                 => /\ info.stop[l1] <= info.stop[l2]
                    /\ order.pickup_location # order.delivery_location
                          => info.stop[l1] < info.stop[l2]
                    /\ info.stop[l1] = info.stop[l2]
                          => /\ l1 = l2
                             /\ \A p \in ps : \A d \in ds : p < d

\* C2's case: the log of a route holds one order picked up and delivered at
\* the same stop and another delivered at a later stop than its pickup
C2_Witness ==
    /\ opt.pc = "annotated"
    /\ \E id \in OrderIds : \E l \in RouteNames :
          EntryAt("PICKUP", id, l) # {} /\ EntryAt("DELIVER", id, l) # {}
    /\ \E id \in OrderIds : \E l1, l2 \in RouteNames :
          /\ EntryAt("PICKUP", id, l1) # {} /\ EntryAt("DELIVER", id, l2) # {}
          /\ info.stop[l1] < info.stop[l2]

\* C3: a delivery is selected only for an order that an earlier pass picked
\* up, and an order leaves remaining_order_ids only after it was picked up.
C3_DeliverAfterPickup ==
    /\ \A j \in 1..Len(opt.selected) :
          opt.selected[j].action_type = "deliver"
             => \E i \in 1..(j - 1) :
                   opt.selected[i] = [action_type |-> "pickup",
                                      order_id |-> opt.selected[j].order_id]
    /\ (opt.pc = "chosen" /\ opt.best.action_type = "deliver")
          => opt.best.order_id \in opt.picked_up_orders
    /\ opt.pc \in {"loop", "chosen", "done", "annotated"} /\ opt.orders # <<>>
          => \A id \in OrderIds \ opt.remaining_order_ids :
                id \in opt.picked_up_orders

\* C3's case: a run that delivered two orders
C3_Witness ==
    /\ opt.pc = "done"
    /\ Len(opt.orders) = 2
    /\ opt.remaining_order_ids = {}
    /\ Len(opt.selected) = 4

\* some pickup or delivery location of the call's orders cannot be reached
\* from the start location
SomeTargetUnreachable ==
    \E i \in 1..Len(opt.orders) :
        \/ ~Reachable(map, opt.start_location, opt.orders[i].pickup_location)
        \/ ~Reachable(map, opt.start_location, opt.orders[i].delivery_location)

\* C4: the call returns (under the fairness of a running call), the loop
\* makes at most 2 x |orders| passes, and with an unreachable or unknown
\* target the call returns through the no-candidate guard.
C4_Terminates ==
    /\ <>Returned
    /\ [](opt.iters <= 2 * Len(opt.orders))
    /\ []((Returned /\ SomeTargetUnreachable) => opt.exit = "guard")

\* C4's case: the guard ended a run that had selected actions before
C4_Witness ==
    /\ opt.pc = "done"
    /\ opt.exit = "guard"
    /\ Len(opt.selected) >= 2
    /\ opt.iters = Len(opt.selected) + 1

\* C5: when every pickup and delivery location can be reached from start the
\* guard does not fire: the call returns with remaining_order_ids empty, each
\* order picked up and then delivered, and its pickup location in the path at
\* an index <= an index of its delivery location.
C5_AllRouted ==
    (Returned /\ ~SomeTargetUnreachable)
    => /\ opt.exit # "guard"
       /\ opt.remaining_order_ids = {}
       /\ \A k \in 1..Len(opt.orders) :
             LET order == opt.orders[k]
             IN  /\ \E i, j \in 1..Len(opt.selected) :
                       /\ i < j
                       /\ opt.selected[i] = [action_type |-> "pickup",
                                             order_id |-> order.order_id]
                       /\ opt.selected[j] = [action_type |-> "deliver",
                                             order_id |-> order.order_id]
                 /\ \E i, j \in 1..Len(opt.path) :
                       /\ i <= j
                       /\ opt.path[i] = order.pickup_location
                       /\ opt.path[j] = order.delivery_location

\* C5's case: two orders with reachable locations were routed along a path
\* of several stops
C5_Witness ==
    /\ opt.pc = "done"
    /\ Len(opt.orders) = 2
    /\ ~SomeTargetUnreachable
    /\ Len(opt.path) >= 4
    /\ opt.exit = "all_delivered"

\* C6: whatever the order in which the set of remaining ids is iterated, the
\* call returns the (path, total_distance) that the rule "of equal-cost
\* candidates the one of the least order id" gives.
C6_Deterministic ==
    opt.pc = "done"
    => LET rule == OptRunAscending(map, OptEnter(OptFrame(opt.start_location, opt.orders)))
       IN  /\ opt.path = rule.path
           /\ opt.total_distance = rule.total_distance

-----------------------------------------------------------------------------
(* The registry specification: create_order, start_delivery, complete_order *)
(* and cancel_order calls on one DeliverySystem                             *)

\* how many create_order calls a behaviour makes
MaxCreates == 2

\* the priorities of the orders: the default and a higher one
Priorities == {0, 1}

\* the latest time of the clock
MaxClock == 1

\* the map of the registry: the line A - B - C; "D" is not a location
RegistryMaps ==
    {AddConnection(AddConnection(AddLocations(EmptyMap, {"A", "B", "C"}),
                                 "A", "B", 1), "B", "C", 1)}

\* the arguments of the calls
CreatePickups == {"A", "D"}

CreateDeliveries == {"C", "D"}

StartLocations == {"A"}

CallIds == {OrderId(i) : i \in 1..MaxCreates}

\* order_ids: absent, the first id, or the first two ids in descending order
OrderIdsArgs ==
    {NoIds, SomeIds(<<OrderId(1)>>), SomeIds(<<OrderId(2), OrderId(1)>>)}

\* datetime.now(): a time not before the latest one read
Now == clock..MaxClock

InitOrders ==
    /\ map \in RegistryMaps
    /\ raised = "none"
    /\ calls = 0
    /\ call = NoCall
    /\ fsp = Frame("A", "A")
    /\ opt = OptFrame("A", <<>>)
    /\ info = NoRouteInfo
    /\ fpm = MultiFrame("A", <<>>, FALSE)
    /\ execution_queue = <<>>
    /\ is_executing = FALSE
    /\ threads = NoThreads
    /\ nav = NavigationController
    /\ self = DeliverySystem
    /\ clock = 0
    /\ result = None

\* lines 47-70
create_order ==
    /\ self.order_counter < MaxCreates
    /\ \E pickup_location \in CreatePickups, delivery_location \in CreateDeliveries,
          priority \in Priorities, now \in Now :
          LET r == CreateOrder(map, self, pickup_location, delivery_location,
                               priority, now)
          IN  /\ call' = [op |-> "create_order",
                           args |-> <<pickup_location, delivery_location, priority>>]
              /\ self' = r.sys
              /\ raised' = r.raised
              /\ result' = r.result
              /\ clock' = IF r.raised = "none" THEN now ELSE clock
    /\ UNCHANGED <<map, calls, fsp, opt, info, fpm, server, nav>>

\* lines 192-206
start_delivery ==
    /\ \E start_location \in StartLocations, order_ids \in OrderIdsArgs :
          \E plan \in plan_delivery_route(map, self, start_location, order_ids) :
              /\ call' = [op |-> "start_delivery",
                           args |-> <<start_location, order_ids>>]
              /\ self' = StartDelivery(self, start_location, order_ids, plan)
              /\ result' = plan
    /\ raised' = "none"
    /\ UNCHANGED <<map, calls, fsp, opt, info, clock, fpm, server, nav>>

\* lines 208-213
complete_order ==
    /\ \E order_id \in CallIds, now \in Now :
          /\ call' = [op |-> "complete_order", args |-> <<order_id>>]
          /\ self' = CompleteOrder(self, order_id, now)
          /\ clock' = IF order_id \in DOMAIN self.orders THEN now ELSE clock
    /\ raised' = "none"
    /\ result' = None
    /\ UNCHANGED <<map, calls, fsp, opt, info, fpm, server, nav>>

\* lines 215-218
cancel_order ==
    /\ \E order_id \in CallIds :
          /\ call' = [op |-> "cancel_order", args |-> <<order_id>>]
          /\ self' = CancelOrder(self, order_id)
    /\ raised' = "none"
    /\ result' = None
    /\ UNCHANGED <<map, calls, fsp, opt, info, clock, fpm, server, nav>>

NextOrders ==
    \/ create_order
    \/ start_delivery
    \/ complete_order
    \/ cancel_order

SpecOrders == InitOrders /\ [][NextOrders]_vars

-----------------------------------------------------------------------------
(* Claims about the registry, checked under SpecOrders *)

\* the status changes of an order that the lifecycle has
Lifecycle ==
    {<<"PENDING", "IN_PROGRESS">>, <<"IN_PROGRESS", "COMPLETED">>,
     <<"PENDING", "CANCELLED">>, <<"IN_PROGRESS", "CANCELLED">>}

\* C10: in every step of create_order, start_delivery, complete_order and
\* cancel_order an order keeps its status or changes it along Pending ->
\* InProgress, InProgress -> Completed or Pending / InProgress -> Cancelled;
\* the status of a Completed or Cancelled order does not change again.
C10_StatusLifecycle ==
    [][\A id \in DOMAIN self.orders :
          /\ id \in DOMAIN self'.orders
          /\ self'.orders[id].status # self.orders[id].status
                => <<self.orders[id].status, self'.orders[id].status>> \in Lifecycle]_vars

\* the ids that the details of a plan list: the orders of the planned route
PlannedIds(plan) ==
    IF "orders" \in DOMAIN plan.details
    THEN {plan.details.orders[i] : i \in 1..Len(plan.details.orders)}
    ELSE {}

\* C11: a start_delivery call takes the orders of the planned route from
\* Pending to InProgress and leaves the status of every other order
\* unchanged.
C11_StartFrame ==
    [][call'.op = "start_delivery"
         => \A id \in DOMAIN self.orders :
               IF id \in PlannedIds(result')
               THEN /\ self.orders[id].status = "PENDING"
                    /\ self'.orders[id].status = "IN_PROGRESS"
               ELSE self'.orders[id].status = self.orders[id].status]_vars

\* C12: in the mapping of _build_route_info every DELIVER entry of an order
\* is matched by a PICKUP entry of the same order, earlier in the list of the
\* same stop or at a stop visited earlier.
C12_DeliverHasPickup ==
    opt.pc = "annotated"
    => \A id \in OrderIds : \A l2 \in RouteNames :
          \A d \in EntryAt("DELIVER", id, l2) :
              \E l1 \in RouteNames : \E p \in EntryAt("PICKUP", id, l1) :
                  \/ info.stop[l1] < info.stop[l2]
                  \/ l1 = l2 /\ p < d

\* C13: create_order with a pickup or delivery location that is not in the
\* graph raises the invalid-location error that names the field and stores no
\* order; with valid locations it stores, under the id of the next counter
\* value, a new Pending order with the given locations and priority, returns
\* that id and leaves the other orders as they are.
C13_CreateOrder ==
    [][call'.op = "create_order"
         => LET pickup_location == call'.args[1]
                delivery_location == call'.args[2]
                order_id == OrderId(self.order_counter + 1)
            IN  IF pickup_location \notin map.locations
                THEN /\ raised' = "ValueError: Invalid pickup location"
                     /\ self'.orders = self.orders
                ELSE IF delivery_location \notin map.locations
                THEN /\ raised' = "ValueError: Invalid delivery location"
                     /\ self'.orders = self.orders
                ELSE /\ raised' = "none"
                     /\ result' = order_id
                     /\ DOMAIN self'.orders = DOMAIN self.orders \cup {order_id}
                     /\ \A id \in DOMAIN self.orders \ {order_id} :
                           self'.orders[id] = self.orders[id]
                     /\ self'.orders[order_id].order_id = order_id
                     /\ self'.orders[order_id].status = "PENDING"
                     /\ self'.orders[order_id].pickup_location = pickup_location
                     /\ self'.orders[order_id].delivery_location = delivery_location
                     /\ self'.orders[order_id].priority = call'.args[3]]_vars

\* C13's case: after a stored order, a create_order call failed on its
\* delivery location and the one order is still the only one
C13_Witness ==
    /\ call.op = "create_order"
    /\ raised = "ValueError: Invalid delivery location"
    /\ self.order_counter = 2
    /\ DOMAIN self.orders = {OrderId(1)}

\* the counter value that an order id was formed from
RECURSIVE IdCounter(_)
IdCounter(id) ==
    IF id = <<>> THEN 0
    ELSE 10 * IdCounter(SubSeq(id, 1, Len(id) - 1)) + id[Len(id)]

\* C14: every stored order is stored under its own id, which was formed from
\* a counter value already used; no step removes an order or changes its id,
\* locations, priority or creation time, and an order that a step adds has a
\* counter value above that of every order stored before.
C14_IdsNeverReused ==
    /\ [](\A id \in DOMAIN self.orders :
             /\ self.orders[id].order_id = id
             /\ id = OrderId(IdCounter(id))
             /\ IdCounter(id) \in 1..self.order_counter)
    /\ [][/\ \A id \in DOMAIN self.orders :
                /\ id \in DOMAIN self'.orders
                /\ self'.orders[id].order_id = self.orders[id].order_id
                /\ self'.orders[id].pickup_location = self.orders[id].pickup_location
                /\ self'.orders[id].delivery_location = self.orders[id].delivery_location
                /\ self'.orders[id].priority = self.orders[id].priority
                /\ self'.orders[id].created_at = self.orders[id].created_at
          /\ \A new \in DOMAIN self'.orders \ DOMAIN self.orders :
                /\ IdCounter(new) > self.order_counter
                /\ \A id \in DOMAIN self.orders : IdCounter(new) > IdCounter(id)]_vars

\* C14's case: two orders are stored and a later call has cancelled the first
C14_Witness ==
    /\ DOMAIN self.orders = {OrderId(1), OrderId(2)}
    /\ call.op = "cancel_order"
    /\ self.orders[OrderId(1)].status = "CANCELLED"

\* C15: for a known order id complete_order sets the status Completed and
\* cancel_order sets it Cancelled, and both set completed_at.
C15_StatusAndStamp ==
    [][(call'.op \in {"complete_order", "cancel_order"}
          /\ call'.args[1] \in DOMAIN self.orders)
         => LET order == self'.orders[call'.args[1]]
            IN  /\ order.status =
                      IF call'.op = "complete_order" THEN "COMPLETED" ELSE "CANCELLED"
                /\ order.completed_at # NoTime]_vars

\* C16: the plan that start_delivery passes on from plan_delivery_route is
\* made for the orders of order_ids that the registry knows and that are
\* Pending when the call is made, in the order of order_ids, or, with
\* order_ids absent, for the Pending orders in the order of
\* get_pending_orders: details['orders'] lists those ids and total_orders is
\* their number; when there is none the plan is ([start], 0, {}).
C16_PlansPending ==
    [][call'.op = "start_delivery"
         => LET start_location == call'.args[1]
                order_ids == call'.args[2]
                IsPending(id) ==
                    id \in DOMAIN self.orders /\ self.orders[id].status = "PENDING"
                pending == get_pending_orders(self)
                expected ==
                    IF IsNone(order_ids)
                    THEN [i \in 1..Len(pending) |-> pending[i].order_id]
                    ELSE SelectSeq(order_ids.some, IsPending)
            IN  /\ raised' = "none"
                /\ IF expected = <<>>
                   THEN /\ result'.route = <<start_location>>
                        /\ result'.distance = 0
                        /\ DOMAIN result'.details = {}
                   ELSE /\ "orders" \in DOMAIN result'.details
                        /\ result'.details.orders = expected
                        /\ result'.details.total_orders = Len(expected)]_vars

\* C16's case: of two named orders the plan dropped the one that was not
\* Pending and kept the other
C16_Witness ==
    /\ call.op = "start_delivery"
    /\ ~IsNone(call.args[2])
    /\ call.args[2].some = <<OrderId(2), OrderId(1)>>
    /\ OrderId(2) \in DOMAIN self.orders
    /\ PlannedIds(result) = {OrderId(1)}

\* C17: the list of get_pending_orders, as a start_delivery call without
\* order_ids plans it, holds the Pending orders of the registry, each once,
\* the higher priority first and of equal priorities the later created_at
\* first.
C17_PendingSorted ==
    [][(call'.op = "start_delivery" /\ IsNone(call'.args[2]))
         => LET pending == {id \in DOMAIN self.orders :
                               self.orders[id].status = "PENDING"}
                q == IF "orders" \in DOMAIN result'.details
                     THEN result'.details.orders ELSE <<>>
            IN  /\ {q[i] : i \in 1..Len(q)} = pending
                /\ Len(q) = Cardinality(pending)
                /\ \A i, j \in 1..Len(q) :
                      i < j =>
                         LET a == self.orders[q[i]]
                             b == self.orders[q[j]]
                         IN  \/ a.priority > b.priority
                             \/ /\ a.priority = b.priority
                                /\ a.created_at >= b.created_at]_vars

\* C17's case: two Pending orders of equal priority were listed, the one
\* created later first
C17_Witness ==
    /\ call.op = "start_delivery"
    /\ IsNone(call.args[2])
    /\ "orders" \in DOMAIN result.details
    /\ result.details.orders = <<OrderId(2), OrderId(1)>>
    /\ self.orders[OrderId(2)].priority = self.orders[OrderId(1)].priority
    /\ self.orders[OrderId(2)].created_at > self.orders[OrderId(1)].created_at

\* C18: after any calls of add_location and add_connection every stored edge
\* weight is finite and not negative (a weight of 0 being that of a
\* same-point shortcut, every other weight > 0).
C18_WeightsNotNegative ==
    \A a \in DOMAIN map.graph : \A b \in DOMAIN map.graph[a] :
        map.graph[a][b] >= 0 /\ map.graph[a][b] < Inf

\* C19: an add_connection call with loc1 or loc2 not a known location raises
\* the error and leaves the locations and the whole adjacency dict as they
\* were; a call with two known locations raises nothing.
C19_FailedConnectionWritesNothing ==
    [][call'.op = "add_connection"
         => IF call'.args[1] \notin map.locations \/ call'.args[2] \notin map.locations
            THEN raised' = "ValueError" /\ map' = map
            ELSE raised' = "none"]_vars

\* C19's case: after calls that changed the map, a call with a known loc1
\* and an unknown loc2 failed
C19_Witness ==
    /\ call.op = "add_connection"
    /\ raised = "ValueError"
    /\ call.args[1] \in map.locations
    /\ call.args[2] \notin map.locations
    /\ map # UBCampus

\* the start location of the call has no outgoing edge
StartIsolated == DOMAIN get_neighbors(map, opt.start_location) = {}

\* every order of the call is picked up and delivered at the known start
AllOrdersAtStart ==
    /\ opt.start_location \in map.locations
    /\ \A i \in 1..Len(opt.orders) :
          /\ opt.orders[i].pickup_location = opt.start_location
          /\ opt.orders[i].delivery_location = opt.start_location

\* C20 as claimed: with orders and a start location without outgoing edges
\* the call returns ([start], 0) through the no-candidate guard.
C20_Original ==
    (Returned /\ opt.orders # <<>> /\ StartIsolated)
    => /\ opt.path = <<opt.start_location>>
       /\ opt.total_distance = 0
       /\ opt.exit = "guard"

\* C20 as amended: the call returns ([start], 0); it leaves the loop through
\* the guard unless every order has the known start as its pickup and its
\* delivery location, and then every order is delivered on the spot and the
\* loop ends with remaining_order_ids empty.
C20_IsolatedStart ==
    (Returned /\ opt.orders # <<>> /\ StartIsolated)
    => /\ opt.path = <<opt.start_location>>
       /\ opt.total_distance = 0
       /\ IF AllOrdersAtStart
          THEN opt.exit = "all_delivered" /\ opt.remaining_order_ids = {}
          ELSE opt.exit = "guard" /\ opt.remaining_order_ids # {}

\* C20's case: at an isolated start one order was picked up and delivered on
\* the spot before the guard ended the run for another
C20_Witness ==
    /\ opt.pc = "done"
    /\ StartIsolated
    /\ opt.exit = "guard"
    /\ Len(opt.selected) = 2
    /\ opt.path = <<opt.start_location>>

-----------------------------------------------------------------------------
(* The greedy choice of optimize_route, checked under SpecRoute *)

\* the cost of the candidate that a pass has for a remaining order: the
\* distance from the current position to its pickup location while it is not
\* picked up, to its delivery location afterwards
CandidateCost(o, order_id) ==
    find_shortest_path(map, o.current,
        IF order_id \in o.picked_up_orders
        THEN OrderDict(o.orders)[order_id].delivery_location
        ELSE OrderDict(o.orders)[order_id].pickup_location).dist

\* C21: the action that a pass of the loop executes is a candidate of that
\* pass (pickup of a remaining order not picked up, delivery of a remaining
\* order picked up), the distance it adds is its cost, and that cost is <=
\* the cost of every candidate of the pass.
C21_GreedyMinimum ==
    [][(opt.pc = "chosen" /\ opt'.pc = "loop")
         => LET done == opt'.selected[Len(opt'.selected)]
            IN  /\ Len(opt'.selected) = Len(opt.selected) + 1
                /\ done.order_id \in opt.remaining_order_ids
                /\ done.action_type =
                      (IF done.order_id \in opt.picked_up_orders
                       THEN "deliver" ELSE "pickup")
                /\ opt'.total_distance - opt.total_distance
                      = CandidateCost(opt, done.order_id)
                /\ \A id \in opt.remaining_order_ids :
                      CandidateCost(opt, done.order_id) <= CandidateCost(opt, id)]_vars

\* C21's case: a pass chose between a pickup and a delivery of different
\* costs, and the cheaper one has the greater order id
C21_Witness ==
    /\ opt.pc = "chosen"
    /\ opt.best.next # None
    /\ \E a, b \in opt.remaining_order_ids :
          /\ IdLess(a, b)
          /\ b = opt.best.order_id
          /\ a \in opt.picked_up_orders /\ b \notin opt.picked_up_orders
          /\ CandidateCost(opt, b) < CandidateCost(opt, a)
          /\ CandidateCost(opt, a) < Inf

-----------------------------------------------------------------------------
(* The tour specification: one find_path_to_multiple call on a drawn map *)

\* the most entries of a drawn destinations list
MaxDestinations == 3

\* the largest edge weight of the maps of the tour specification
MaxTourWeight == 2

\* the pairs of names that may carry an edge in a map of the tour
\* specification
TourPairs == {<<"A", "B">>, <<"A", "C">>, <<"B", "C">>, <<"C", "D">>}

\* the maps of the tour specification: every name known or "D" unknown
TourMaps ==
    MapsOver(Names, TourPairs, 1..MaxTourWeight)
        \cup MapsOver(Names \ {"D"}, TourPairs, 1..MaxTourWeight)

\* the destinations lists: line 89 turns the list into a set, so of the lists
\* with the same entries the one that does not descend is drawn; an entry may
\* repeat
DestinationLists ==
    UNION {{x \in [1..n -> Names] : \A i \in 1..(n - 1) : Rank(x[i]) <= Rank(x[i + 1])}
           : n \in 0..MaxDestinations}

InitTour ==
    /\ self = DeliverySystem
    /\ clock = 0
    /\ result = None
    /\ map \in TourMaps
    /\ raised = "none"
    /\ calls = 0
    /\ call = NoCall
    /\ fsp = Frame("A", "A")
    /\ opt = OptFrame("A", <<>>)
    /\ info = NoRouteInfo
    /\ fpm \in {MultiFrame(s, d, r) :
                   s \in {"A", "B", "D"}, d \in DestinationLists, r \in BOOLEAN}
    /\ execution_queue = <<>>
    /\ is_executing = FALSE
    /\ threads = NoThreads
    /\ nav = NavigationController

\* lines 84-100
MultiCall ==
    /\ fpm.pc = "call"
    /\ fpm' = MultiEnter(fpm)
    /\ UNCHANGED <<map, raised, calls, call, fsp, opt, info, registry, server, nav>>

\* lines 103-123: the nearest destination is appended
MultiVisit ==
    /\ fpm.pc = "loop"
    /\ fpm.remaining # {}
    /\ \E q \in Orderings(fpm.remaining) :
          /\ Nearest(map, fpm.current, NoNearest, q).nearest # None
          /\ fpm' = MultiStep(map, fpm, q)
    /\ UNCHANGED <<map, raised, calls, call, fsp, opt, info, registry, server, nav>>

\* lines 116-117: no remaining destination is in reach
MultiBreak ==
    /\ fpm.pc = "loop"
    /\ fpm.remaining # {}
    /\ \E q \in Orderings(fpm.remaining) :
          /\ Nearest(map, fpm.current, NoNearest, q).nearest = None
          /\ fpm' = MultiStep(map, fpm, q)
    /\ UNCHANGED <<map, raised, calls, call, fsp, opt, info, registry, server, nav>>

\* line 103: the set is empty
MultiExhausted ==
    /\ fpm.pc = "loop"
    /\ fpm.remaining = {}
    /\ fpm' = MultiStep(map, fpm, <<>>)
    /\ UNCHANGED <<map, raised, calls, call, fsp, opt, info, registry, server, nav>>

\* lines 126-129: the way back to start is appended
MultiBack ==
    /\ fpm.pc = "return"
    /\ fpm.return_to_start /\ fpm.current # fpm.start
    /\ fpm' = MultiReturn(map, fpm)
    /\ UNCHANGED <<map, raised, calls, call, fsp, opt, info, registry, server, nav>>

\* lines 126, 131: no way back is asked for or needed
MultiDone ==
    /\ fpm.pc = "return"
    /\ ~(fpm.return_to_start /\ fpm.current # fpm.start)
    /\ fpm' = MultiReturn(map, fpm)
    /\ UNCHANGED <<map, raised, calls, call, fsp, opt, info, registry, server, nav>>

NextTour ==
    \/ MultiCall
    \/ MultiVisit
    \/ MultiBreak
    \/ MultiExhausted
    \/ MultiBack
    \/ MultiDone

SpecTour == InitTour /\ [][NextTour]_vars

-----------------------------------------------------------------------------
(* Claims about find_path_to_multiple, checked under SpecTour *)

\* the destinations asked for
Destinations == {fpm.destinations[i] : i \in 1..Len(fpm.destinations)}

\* the sum of the distances of the first k appended sub-paths
RECURSIVE VisitedDistance(_)
VisitedDistance(k) == IF k = 0 THEN 0 ELSE VisitedDistance(k - 1) + fpm.visited[k].dist

\* C22: the returned path begins at start, contains every destination that
\* can be reached from start, and ends at start when return_to_start is
\* true; the k-th destination appended was reached from the position before
\* it at its find_shortest_path distance, and no destination not yet visited
\* was nearer; the returned distance is the sum of the distances of the
\* appended sub-paths (the way back included), which is the weight of the
\* path's edges.
C22_NearestNeighbourTour ==
    /\ \A k \in 1..Len(fpm.visited) :
          LET v == fpm.visited[k]
              before == {fpm.visited[j].dest : j \in 1..(k - 1)}
          IN  /\ v.from = (IF k = 1 THEN fpm.start ELSE fpm.visited[k - 1].dest)
              /\ v.dest \in (Destinations \ {fpm.start}) \ before
              /\ v.dist = find_shortest_path(map, v.from, v.dest).dist
              /\ \A d \in (Destinations \ {fpm.start}) \ before :
                    v.dist <= find_shortest_path(map, v.from, d).dist
    /\ fpm.pc = "done"
          => /\ fpm.path # <<>> /\ fpm.path[1] = fpm.start
             /\ \A d \in Destinations :
                   Reachable(map, fpm.start, d)
                      => \E i \in 1..Len(fpm.path) : fpm.path[i] = d
             /\ fpm.return_to_start => fpm.path[Len(fpm.path)] = fpm.start
             /\ fpm.total_distance =
                   VisitedDistance(Len(fpm.visited))
                     + (IF fpm.return_to_start /\ fpm.visited # <<>>
                        THEN find_shortest_path(map, fpm.current, fpm.start).dist
                        ELSE 0)
             /\ fpm.visited # <<>>
                   => IsWalk(map, fpm.path) /\ WalkCost(map, fpm.path) = fpm.total_distance

\* C22's case: a returned round trip that appended two destinations, the
\* second farther than the first, and left a third that is out of reach
C22_Witness ==
    /\ fpm.pc = "done"
    /\ fpm.return_to_start
    /\ Len(fpm.visited) = 2
    /\ fpm.visited[1].dist < fpm.visited[2].dist
    /\ fpm.remaining # {}
    /\ Len(fpm.path) >= 5

-----------------------------------------------------------------------------
(* The action log of a fully routed call, checked under SpecRoute *)

\* how many entries of the kind route_info holds for the order, over all its
\* locations
RECURSIVE EntryCount(_, _, _)
EntryCount(kind, order_id, locations) ==
    IF locations = {} THEN 0
    ELSE LET l == CHOOSE x \in locations : TRUE
         IN  Cardinality(EntryAt(kind, order_id, l))
               + EntryCount(kind, order_id, locations \ {l})

\* C23: when optimize_route has routed every order, the mapping of
\* _build_route_info for its route holds exactly one PICKUP entry and exactly
\* one DELIVER entry of every order, also when the route visits a location
\* more than once.
C23_OneEntryEach ==
    (opt.pc = "annotated" /\ opt.exit = "all_delivered")
    => \A id \in OrderIds :
          /\ EntryCount("PICKUP", id, DOMAIN info.route_info) = 1
          /\ EntryCount("DELIVER", id, DOMAIN info.route_info) = 1

\* C24: in every pass of optimize_route's loop and at return, the path starts
\* with start and ends with the current position, every two consecutive
\* locations of it differ and are joined by an edge of the graph, and
\* total_distance is the sum of the weights of those edges.
C24_PathIsWalk ==
    opt.pc \in {"loop", "chosen", "done", "annotated"}
    => /\ opt.path # <<>>
       /\ opt.path[1] = opt.start_location
       /\ opt.path[Len(opt.path)] = opt.current
       /\ \A i \in 1..(Len(opt.path) - 1) :
             /\ opt.path[i] # opt.path[i + 1]
             /\ HasEdge(map, opt.path[i], opt.path[i + 1])
       /\ opt.total_distance = WalkCost(map, opt.path)

\* C24's case: a returned path of several edges that comes back to a
\* location, from a run with a pass that added no location
C24_Witness ==
    /\ opt.pc = "done"
    /\ opt.exit = "all_delivered"
    /\ Len(opt.path) >= 4
    /\ Len(opt.selected) > Len(opt.path) - 1
    /\ \E i, j \in 1..Len(opt.path) : i < j /\ opt.path[i] = opt.path[j]
    /\ opt.total_distance >= 3

-----------------------------------------------------------------------------
(* Failing creations and the ids, checked under SpecOrders *)

\* C25: a create_order call that fails the validation of its locations
\* leaves the registry as it was, the id counter included, so that the n-th
\* order created has the id of n: a successful call on a registry of k orders
\* returns the id of k + 1.
C25_FailedCreateChangesNothing ==
    [][call'.op = "create_order"
         => IF raised' # "none"
            THEN self' = self
            ELSE result' = OrderId(Cardinality(DOMAIN self.orders) + 1)]_vars

-----------------------------------------------------------------------------
(* The server specification: pi_server's request handlers (Flask runs each  *)
(* request in a thread of its own, line 377) and the execute_orders_thread  *)
(* threads they start, on one DeliverySystem.  A step is a stretch of a     *)
(* thread's code with at most one access to the shared state; a            *)
(* `with execution_lock` block is one step.                                 *)

\* the most requests of a behaviour
MaxRequests == 2

\* the most orders the registry holds when the requests begin
MaxServerOrders == 2

\* an item of an order, as the JSON of the create request gives it (line
\* 151 does not look at the elements): a value is modelled by its type
Items == {<<"str">>, <<"int">>}

\* an order with its items
OrderWithItems(order, items) == [items |-> items] @@ order

\* ', '.join(order.items), line 311: raises TypeError unless every item is a
\* string
JoinRaises(items) == \E i \in 1..Len(items) : items[i] # "str"

\* the registries the requests find: orders made by earlier create requests,
\* all Pending
ServerRegistries ==
    UNION {{[DeliverySystem EXCEPT
                !.order_counter = n,
                !.orders = [id \in {OrderId(i) : i \in 1..n} |->
                               OrderWithItems(
                                   Order(id, "A", d[IdCounter(id)], 0, 0),
                                   its[IdCounter(id)])]] :
               d \in [1..n -> {"A", "C"}], its \in [1..n -> Items]}
           : n \in 1..MaxServerOrders}

\* the order ids of the requests: the ids of the orders and one more
RequestIds == {OrderId(i) : i \in 1..(MaxServerOrders + 1)}

Endpoints == {"execute_order", "execute_all_orders", "cancel_order"}

\* what plan_delivery_route has not returned yet
NoPlan == [route |-> <<>>, distance |-> 0, details |-> EmptyDict]

\* a thread at its first statement: a request handler with the order id of
\* the URL, or an execute_orders_thread
Thread(kind, order_id) ==
    [kind |-> kind, pc |-> "start", order_id |-> order_id, pending |-> <<>>,
     was_pending |-> FALSE, plan |-> NoPlan, status_code |-> 0]

\* order_id in execution_queue
InQueue(queue, order_id) == \E i \in 1..Len(queue) : queue[i] = order_id

\* lines 193-194, 220-221
Enqueue(queue, order_id) ==
    IF InQueue(queue, order_id) THEN queue ELSE Append(queue, order_id)

\* lines 219-221
RECURSIVE EnqueueAll(_, _)
EnqueueAll(queue, pending) ==
    IF pending = <<>> THEN queue
    ELSE EnqueueAll(Enqueue(queue, Head(pending).order_id), Tail(pending))

\* lines 245-246: execution_queue.remove(order_id)
RECURSIVE Remove(_, _)
Remove(queue, order_id) ==
    IF queue = <<>> THEN <<>>
    ELSE IF Head(queue) = order_id THEN Tail(queue)
    ELSE <<Head(queue)>> \o Remove(Tail(queue), order_id)

\* order.status = status (lines 292, 315, 349)
SetStatus(sys, order_id, status) == [sys EXCEPT !.orders[order_id].status = status]

\* the handlers and workers that have not returned
Live(kind) == {i \in 1..Len(threads) : threads[i].kind = kind /\ threads[i].pc # "done"}

Handlers == {i \in 1..Len(threads) : threads[i].kind \in Endpoints}

InitServer ==
    /\ self \in ServerRegistries
    /\ clock = 0
    /\ result = None
    /\ map \in RegistryMaps
    /\ raised = "none"
    /\ calls = 0
    /\ call = NoCall
    /\ fsp = Frame("A", "A")
    /\ opt = OptFrame("A", <<>>)
    /\ info = NoRouteInfo
    /\ fpm = MultiFrame("A", <<>>, FALSE)
    /\ execution_queue = <<>>
    /\ is_executing = FALSE
    /\ threads = NoThreads
    /\ nav = NavigationController

\* what no step of the server touches
ServerFrame == <<map, raised, calls, call, fsp, opt, info, result, fpm, nav>>

\* Flask hands a request to a new thread (line 377, threaded=True)
ReceiveRequest ==
    /\ Cardinality(Handlers) < MaxRequests
    /\ \E kind \in Endpoints, order_id \in RequestIds :
          /\ kind = "execute_all_orders" => order_id = OrderId(1)
          /\ threads' = Append(threads, Thread(kind, order_id))
    /\ UNCHANGED <<self, clock, execution_queue, is_executing, ServerFrame>>

\* execute_order, lines 184-189
ExecuteOrderCheck ==
    /\ \E i \in Live("execute_order") :
          LET t == threads[i]
          IN  /\ t.pc = "start"
              /\ threads' =
                   [threads EXCEPT ![i] =
                      IF t.order_id \notin DOMAIN self.orders
                      THEN [t EXCEPT !.pc = "done", !.status_code = 404]
                      ELSE IF self.orders[t.order_id].status # "PENDING"
                      THEN [t EXCEPT !.pc = "done", !.status_code = 400]
                      ELSE [t EXCEPT !.pc = "enqueue"]]
    /\ UNCHANGED <<self, clock, execution_queue, is_executing, ServerFrame>>

\* execute_order, lines 192-194
ExecuteOrderEnqueue ==
    /\ \E i \in Live("execute_order") :
          /\ threads[i].pc = "enqueue"
          /\ execution_queue' = Enqueue(execution_queue, threads[i].order_id)
          /\ threads' = [threads EXCEPT ![i].pc = "spawn"]
    /\ UNCHANGED <<self, clock, is_executing, ServerFrame>>

\* execute_all_orders, lines 213-215
ExecuteAllCheck ==
    /\ \E i \in Live("execute_all_orders") :
          LET t == threads[i]
              pending_orders == get_pending_orders(self)
          IN  /\ t.pc = "start"
              /\ threads' =
                   [threads EXCEPT ![i] =
                      IF pending_orders = <<>>
                      THEN [t EXCEPT !.pc = "done", !.status_code = 200]
                      ELSE [t EXCEPT !.pc = "enqueue", !.pending = pending_orders]]
    /\ UNCHANGED <<self, clock, execution_queue, is_executing, ServerFrame>>

\* execute_all_orders, lines 218-221
ExecuteAllEnqueue ==
    /\ \E i \in Live("execute_all_orders") :
          /\ threads[i].pc = "enqueue"
          /\ execution_queue' = EnqueueAll(execution_queue, threads[i].pending)
          /\ threads' = [threads EXCEPT ![i].pc = "spawn"]
    /\ UNCHANGED <<self, clock, is_executing, ServerFrame>>

\* lines 197-199 and 224-226, with is_executing false: a thread is started
StartThread ==
    /\ \E i \in Live("execute_order") \cup Live("execute_all_orders") :
          /\ threads[i].pc = "spawn"
          /\ ~is_executing
          /\ threads' =
               Append([threads EXCEPT ![i].pc = "respond"],
                      Thread("execute_orders_thread", threads[i].order_id))
    /\ UNCHANGED <<self, clock, execution_queue, is_executing, ServerFrame>>

\* lines 197 and 224, with is_executing true: no thread is started
NoStartThread ==
    /\ \E i \in Live("execute_order") \cup Live("execute_all_orders") :
          /\ threads[i].pc = "spawn"
          /\ is_executing
          /\ threads' = [threads EXCEPT ![i].pc = "respond"]
    /\ UNCHANGED <<self, clock, execution_queue, is_executing, ServerFrame>>

\* lines 201-205 and 228-231: the answer; execution_queue.index(order_id)
\* raises ValueError when the id has left the queue, which Flask answers
\* with 500
Respond ==
    /\ \E i \in Live("execute_order") \cup Live("execute_all_orders") :
          LET t == threads[i]
          IN  /\ t.pc = "respond"
              /\ threads' =
                   [threads EXCEPT ![i] =
                      [t EXCEPT !.pc = "done",
                                !.status_code =
                                   IF t.kind = "execute_order"
                                      /\ ~InQueue(execution_queue, t.order_id)
                                   THEN 500 ELSE 200]]
    /\ UNCHANGED <<self, clock, execution_queue, is_executing, ServerFrame>>

\* cancel_order, lines 237-241
CancelOrderMark ==
    /\ \E i \in Live("cancel_order") :
          LET t == threads[i]
          IN  /\ t.pc = "start"
              /\ IF t.order_id \notin DOMAIN self.orders
                 THEN /\ threads' = [threads EXCEPT ![i] =
                                        [t EXCEPT !.pc = "done", !.status_code = 404]]
                      /\ self' = self
                 ELSE /\ threads' = [threads EXCEPT ![i].pc = "dequeue"]
                      /\ self' = CancelOrder(self, t.order_id)
    /\ UNCHANGED <<clock, execution_queue, is_executing, ServerFrame>>

\* cancel_order, lines 244-251
CancelOrderDequeue ==
    /\ \E i \in Live("cancel_order") :
          LET t == threads[i]
          IN  /\ t.pc = "dequeue"
              /\ execution_queue' =
                   (IF InQueue(execution_queue, t.order_id)
                    THEN Remove(execution_queue, t.order_id)
                    ELSE execution_queue)
              /\ threads' = [threads EXCEPT ![i] =
                                [t EXCEPT !.pc = "done", !.status_code = 200]]
    /\ UNCHANGED <<self, clock, is_executing, ServerFrame>>

\* execute_orders_thread, lines 265-268
WorkerInit ==
    /\ \E i \in Live("execute_orders_thread") :
          /\ threads[i].pc = "start"
          /\ is_executing' = TRUE
          /\ threads' = [threads EXCEPT ![i].pc = "pop"]
    /\ UNCHANGED <<self, clock, execution_queue, ServerFrame>>

\* execute_orders_thread, lines 272-277: the first id leaves the queue
WorkerPop ==
    /\ \E i \in Live("execute_orders_thread") :
          /\ threads[i].pc = "pop"
          /\ execution_queue # <<>>
          /\ execution_queue' = Tail(execution_queue)
          /\ threads' = [threads EXCEPT ![i] =
                            [@ EXCEPT !.pc = "execute",
                                      !.order_id = Head(execution_queue),
                                      !.was_pending = FALSE, !.plan = NoPlan]]
    /\ UNCHANGED <<self, clock, is_executing, ServerFrame>>

\* execute_orders_thread, lines 278-279: the queue is empty
WorkerBreak ==
    /\ \E i \in Live("execute_orders_thread") :
          /\ threads[i].pc = "pop"
          /\ execution_queue = <<>>
          /\ threads' = [threads EXCEPT ![i].pc = "finally"]
    /\ UNCHANGED <<self, clock, execution_queue, is_executing, ServerFrame>>

\* execute_single_order, lines 303-315: the order is set in progress (an
\* unknown id returns at line 305)
SingleOrderMark ==
    /\ \E i \in Live("execute_orders_thread") :
          LET t == threads[i]
          IN  /\ t.pc = "execute"
              /\ t.order_id \in DOMAIN self.orders => ~JoinRaises(self.orders[t.order_id].items)
              /\ IF t.order_id \notin DOMAIN self.orders
                 THEN /\ threads' = [threads EXCEPT ![i].pc = "pop"]
                      /\ self' = self
                 ELSE /\ threads' =
                           [threads EXCEPT ![i] =
                              [t EXCEPT !.pc = "plan",
                                        !.was_pending =
                                           (self.orders[t.order_id].status = "PENDING")]]
                      /\ self' = SetStatus(self, t.order_id, "IN_PROGRESS")
    /\ UNCHANGED <<clock, execution_queue, is_executing, ServerFrame>>

\* execute_single_order, line 311: the join of the items raises, and
\* execute_orders_thread catches it at line 287
SingleOrderRaise ==
    /\ \E i \in Live("execute_orders_thread") :
          LET t == threads[i]
          IN  /\ t.pc = "execute"
              /\ t.order_id \in DOMAIN self.orders
              /\ JoinRaises(self.orders[t.order_id].items)
              /\ threads' = [threads EXCEPT ![i].pc = "failed"]
    /\ UNCHANGED <<self, clock, execution_queue, is_executing, ServerFrame>>

\* execute_single_order, lines 320-332: the route from the pickup location.
\* Nothing between line 320 and line 345 raises, so the handler of lines
\* 347-350 is not entered
SingleOrderPlan ==
    /\ \E i \in Live("execute_orders_thread") :
          LET t == threads[i]
          IN  /\ t.pc = "plan"
              /\ \E plan \in plan_delivery_route(map, self,
                                 self.orders[t.order_id].pickup_location,
                                 SomeIds(<<t.order_id>>)) :
                    threads' = [threads EXCEPT ![i] =
                                   [t EXCEPT !.pc = "complete", !.plan = plan]]
    /\ UNCHANGED <<self, clock, execution_queue, is_executing, ServerFrame>>

\* execute_single_order, lines 340-345, and the sleep of line 295
SingleOrderComplete ==
    /\ \E i \in Live("execute_orders_thread") :
          /\ threads[i].pc = "complete"
          /\ \E now \in Now :
                /\ self' = CompleteOrder(self, threads[i].order_id, now)
                /\ clock' = now
          /\ threads' = [threads EXCEPT ![i].pc = "pop"]
    /\ UNCHANGED <<execution_queue, is_executing, ServerFrame>>

\* execute_orders_thread, lines 287-295: the order of a failed execution is
\* set pending
WorkerFailed ==
    /\ \E i \in Live("execute_orders_thread") :
          LET t == threads[i]
          IN  /\ t.pc = "failed"
              /\ self' = (IF t.order_id \in DOMAIN self.orders
                          THEN SetStatus(self, t.order_id, "PENDING")
                          ELSE self)
              /\ threads' = [threads EXCEPT ![i].pc = "pop"]
    /\ UNCHANGED <<clock, execution_queue, is_executing, ServerFrame>>

\* execute_orders_thread, lines 297-298
WorkerFinally ==
    /\ \E i \in Live("execute_orders_thread") :
          /\ threads[i].pc = "finally"
          /\ is_executing' = FALSE
          /\ threads' = [threads EXCEPT ![i].pc = "done"]
    /\ UNCHANGED <<self, clock, execution_queue, ServerFrame>>

NextServer ==
    \/ ReceiveRequest
    \/ ExecuteOrderCheck
    \/ ExecuteOrderEnqueue
    \/ ExecuteAllCheck
    \/ ExecuteAllEnqueue
    \/ StartThread
    \/ NoStartThread
    \/ Respond
    \/ CancelOrderMark
    \/ CancelOrderDequeue
    \/ WorkerInit
    \/ WorkerPop
    \/ WorkerBreak
    \/ SingleOrderMark
    \/ SingleOrderRaise
    \/ SingleOrderPlan
    \/ SingleOrderComplete
    \/ WorkerFailed
    \/ WorkerFinally

SpecServer == InitServer /\ [][NextServer]_vars

-----------------------------------------------------------------------------
(* Claims about pi_server, checked under SpecServer *)

\* C26: at most one execute_orders_thread is running at any time.
C26_OneWorker == Cardinality(Live("execute_orders_thread")) <= 1

\* C27: the server does not come to rest (every handler has answered, no
\* execute_orders_thread is running) with an order id left in
\* execution_queue: an id that was appended is popped by a worker or removed
\* by cancel_order.
C27_QueueDrained ==
    (Live("execute_orders_thread") = {} /\ \A i \in Handlers : threads[i].pc = "done")
    => execution_queue = <<>>

\* C28: an order that the cancel endpoint has set to Cancelled stays
\* Cancelled in every later step, whatever the worker does.
C28_CancelledStays ==
    [][\A id \in DOMAIN self.orders :
          self.orders[id].status = "CANCELLED"
             => self'.orders[id].status = "CANCELLED"]_vars

\* C29: when execute_single_order runs for an order that is Pending and whose
\* delivery location can be reached from its pickup location, the route that
\* plan_delivery_route returned to it, and after which it completes the
\* order, starts at the pickup location and holds the delivery location.
C29_RouteReachesDelivery ==
    \A i \in Live("execute_orders_thread") :
        LET t == threads[i]
            order == self.orders[t.order_id]
        IN  (/\ t.pc = "complete"
             /\ t.was_pending
             /\ Reachable(map, order.pickup_location, order.delivery_location))
            => /\ t.plan.route # <<>>
               /\ t.plan.route[1] = order.pickup_location
               /\ \E k \in 1..Len(t.plan.route) :
                     t.plan.route[k] = order.delivery_location

-----------------------------------------------------------------------------
(* The navigation specification: set_route on a NavigationController, then  *)
(* update_location for the waypoints that follow the first, in order, as    *)
(* test_gps_navigation_simulation (src/navigation/test_navigation.py, lines *)
(* 140-170) and gps_navigation_example.py (lines 120, 148-162) drive it     *)

\* the most waypoints of a drawn route
MaxRoute == 3

\* lines 53-58: set_route
SetRoute(n, route, start_location) ==
    [n EXCEPT !.current_route = route, !.current_waypoint_index = 0,
              !.current_location = start_location, !.state = "navigating"]

\* lines 60-64: get_next_waypoint; the index counts from 0
GetNextWaypoint(n) ==
    IF n.current_waypoint_index < Len(n.current_route)
    THEN n.current_route[n.current_waypoint_index + 1]
    ELSE None

\* lines 66-75: advance_to_next_waypoint
AdvanceToNextWaypoint(n) ==
    IF n.current_waypoint_index < Len(n.current_route)
    THEN LET index == n.current_waypoint_index + 1
         IN  IF index < Len(n.current_route)
             THEN [n EXCEPT !.current_waypoint_index = index,
                            !.current_location = n.current_route[index]]
             ELSE [n EXCEPT !.current_waypoint_index = index,
                            !.state = "arrived",
                            !.current_location = n.current_route[Len(n.current_route)]]
    ELSE n

\* lines 197-210: update_location
UpdateLocation(n, location) ==
    LET located == [n EXCEPT !.current_location = location]
        next_waypoint == GetNextWaypoint(located)
        advanced == IF next_waypoint # None /\ location = next_waypoint
                    THEN AdvanceToNextWaypoint(located)
                    ELSE located
    IN  [advanced EXCEPT !.state =
            IF advanced.current_waypoint_index >= Len(advanced.current_route)
            THEN "arrived" ELSE "navigating"]

\* the routes: two to MaxRoute waypoints
Routes == UNION {[1..n -> Names] : n \in 2..MaxRoute}

InitNav ==
    /\ self = DeliverySystem
    /\ clock = 0
    /\ result = None
    /\ map \in RegistryMaps
    /\ raised = "none"
    /\ calls = 0
    /\ call = NoCall
    /\ fsp = Frame("A", "A")
    /\ opt = OptFrame("A", <<>>)
    /\ info = NoRouteInfo
    /\ fpm = MultiFrame("A", <<>>, FALSE)
    /\ execution_queue = <<>>
    /\ is_executing = FALSE
    /\ threads = NoThreads
    /\ nav = NavigationController

\* nav.set_route(route, route[0]); calls counts the waypoints the robot has
\* been at
set_route ==
    /\ calls = 0
    /\ \E route \in Routes :
          /\ nav' = SetRoute(nav, route, route[1])
          /\ call' = [op |-> "set_route", args |-> <<route, route[1]>>]
    /\ calls' = 1
    /\ UNCHANGED <<map, raised, fsp, opt, info, registry, fpm, server>>

\* nav.update_location(waypoint) for the next waypoint of the route
update_location ==
    /\ calls >= 1
    /\ calls < Len(nav.current_route)
    /\ LET waypoint == nav.current_route[calls + 1]
       IN  /\ nav' = UpdateLocation(nav, waypoint)
           /\ call' = [op |-> "update_location", args |-> <<waypoint>>]
    /\ calls' = calls + 1
    /\ UNCHANGED <<map, raised, fsp, opt, info, registry, fpm, server>>

NextNav ==
    \/ set_route
    \/ update_location

SpecNav == InitNav /\ [][NextNav]_vars

\* C30: after set_route(route, route[0]) on a route of two or more
\* waypoints and update_location(w) for each following waypoint w in order,
\* the controller is ARRIVED with current_location = route[-1] and
\* current_waypoint_index = len(route); the index never exceeds len(route).
C30_ArrivesAtEnd ==
    /\ nav.current_waypoint_index <= Len(nav.current_route)
    /\ (call.op = "update_location" /\ calls = Len(nav.current_route))
          => /\ nav.state = "arrived"
             /\ nav.current_location = nav.current_route[Len(nav.current_route)]
             /\ nav.current_waypoint_index = Len(nav.current_route)

====
